---- MODULE Spec2Model ----
(***************************************************************************)
(* The aggregation engine of perf-monitor: CPUProfileGenerator builds a    *)
(* per-context profile from a sampled trace or from instrumentation        *)
(* records, merges profiles and exports them in the speedscope format.     *)
(* Times are milliseconds (integers here), timeDeltas are microseconds.    *)
(* JavaScript arrays are 0-based; the sequences here are 1-based, so an    *)
(* index i of the code is position i + 1.                                  *)
(***************************************************************************)
EXTENDS Integers, Sequences, FiniteSets, TLC

VARIABLES
  gen,              \* the private fields of the CPUProfileGenerator
  markedFunctions,  \* the process-wide function marker registry
  call,             \* the call: method name and arguments (the caller's arrays)
  ret,              \* what the call returned, or the error it raised
  pc,               \* "call" before the method has run, "done" after
  monitor,          \* the fields of the PerformanceMonitor and of its collaborators
  env,              \* the browser: what it supports, and its clock
  app               \* the demo page's retrieval of the workers' telemetry

vars == <<gen, markedFunctions, call, ret, pc, monitor, env, app>>

orchestration == <<monitor, env, app>>

(***************************************************************************)
(* Bounds of the model.                                                    *)
(***************************************************************************)
MaxSamples == 2     \* samples of a trace
MaxRecords == 2     \* records of one context
MaxProfiles == 2    \* profiles handed to mergeProfiles

(***************************************************************************)
(* JavaScript values.                                                      *)
(***************************************************************************)
Undefined == [undefined |-> TRUE]
Null == [null |-> TRUE]
NoReturn == [pending |-> TRUE]
EmptyMap == [k \in {} |-> 0]

Has(r, f) == f \in DOMAIN r

SeqsUpTo(S, n) == UNION {[1..k -> S] : k \in 0..n}

Range(s) == {s[i] : i \in DOMAIN s}

Max2(a, b) == IF a >= b THEN a ELSE b

StartsWith(s, p) == Len(s) >= Len(p) /\ SubSeq(s, 1, Len(p)) = p

Includes(s, p) == \E i \in 1..(Len(s) - Len(p) + 1) : SubSeq(s, i, i + Len(p) - 1) = p

RaisedError(message) == [error |-> message]

IsError(r) == Has(r, "error")

(***************************************************************************)
(* function-marker: the registry lookup.                                   *)
(***************************************************************************)
getFunctionMarker(mf, name) == IF name \in DOMAIN mf THEN mf[name] ELSE Undefined

(***************************************************************************)
(* CPUProfileGenerator: private state, reset, script ids.                  *)
(***************************************************************************)
FreshGen ==
  [nodes |-> <<>>, samples |-> <<>>, timeDeltas |-> <<>>, nodeMap |-> EmptyMap,
   nodeIdCounter |-> 0, scriptIdCounter |-> 0, scriptMap |-> EmptyMap, startTime |-> 0]

reset(g) ==
  [g EXCEPT !.nodes = <<>>, !.samples = <<>>, !.timeDeltas = <<>>, !.nodeMap = EmptyMap,
            !.nodeIdCounter = 0, !.scriptIdCounter = 0, !.scriptMap = EmptyMap]

getScriptId(g, url) ==
  IF url \in DOMAIN g.scriptMap
  THEN [g |-> g, scriptId |-> g.scriptMap[url]]
  ELSE LET scriptId == "script-" \o ToString(g.scriptIdCounter)
       IN [g |-> [g EXCEPT !.scriptIdCounter = @ + 1, !.scriptMap = @ @@ (url :> scriptId)],
           scriptId |-> scriptId]

getEmptyProfileAtZero(startTime, endTime) ==
  [nodes |-> <<>>, samples |-> <<>>, timeDeltas |-> <<>>, startTime |-> 0, endTime |-> 0]

getEmptyProfile(startTime, endTime) ==
  [nodes |-> <<>>, samples |-> <<>>, timeDeltas |-> <<>>,
   startTime |-> startTime, endTime |-> endTime]

ProfileOf(g, startTime, endTime) ==
  [nodes |-> g.nodes, samples |-> g.samples, timeDeltas |-> g.timeDeltas,
   startTime |-> startTime, endTime |-> endTime]

(***************************************************************************)
(* getOrCreateNode: the node of a trace frame, created on first use.       *)
(***************************************************************************)
frameFunctionName(frame) ==
  IF Has(frame, "name") /\ frame.name # "" THEN frame.name ELSE "(anonymous)"

frameUrl(frame, threadName) ==
  LET baseUrl == IF Has(frame, "resourceId")
                 THEN "script-" \o ToString(frame.resourceId) ELSE ""
      path == IF baseUrl = "" THEN "inline" ELSE baseUrl
  IN IF threadName = "Main Thread" THEN "main-thread://" \o path
     ELSE threadName \o "://" \o path

frameLine(frame) == IF Has(frame, "line") THEN frame.line ELSE 0

frameColumn(frame) == IF Has(frame, "column") THEN frame.column ELSE 0

frameNodeKeyNoColumn(frame, threadName) ==
  threadName \o "::" \o frameFunctionName(frame) \o "::" \o frameUrl(frame, threadName)
    \o "::" \o ToString(frameLine(frame))

frameNodeKey(frame, threadName) ==
  threadName \o "::" \o frameFunctionName(frame) \o "::" \o frameUrl(frame, threadName)
    \o "::" \o ToString(frameLine(frame)) \o "::" \o ToString(frameColumn(frame))

getOrCreateNode(g, mf, frame, threadName) ==
  LET functionName == frameFunctionName(frame)
      url == frameUrl(frame, threadName)
      nodeKey == frameNodeKey(frame, threadName)
  IN IF nodeKey \in DOMAIN g.nodeMap
     THEN [g |-> g, nodeId |-> g.nodeMap[nodeKey]]
     ELSE LET nodeId == g.nodeIdCounter
              g1 == [g EXCEPT !.nodeIdCounter = @ + 1]
              sid == getScriptId(g1, url)
              marker == getFunctionMarker(mf, functionName)
              base == [id |-> nodeId,
                       callFrame |->
                         [functionName |-> IF threadName = "Main Thread" THEN functionName
                                           ELSE "[" \o threadName \o "] " \o functionName,
                          scriptId |-> sid.scriptId,
                          url |-> url,
                          lineNumber |-> frameLine(frame),
                          columnNumber |-> frameColumn(frame)],
                       hitCount |-> 1]
              node == IF marker = Undefined THEN base ELSE base @@ [marker |-> marker]
          IN [g |-> [sid.g EXCEPT !.nodes = Append(@, node),
                                  !.nodeMap = @ @@ (nodeKey :> nodeId)],
              nodeId |-> nodeId]

(***************************************************************************)
(* processTrace: a node per frame, then a sample per sample whose stack    *)
(* names a frame.  Reading the name of a frame that is not in the trace's  *)
(* frames raises a TypeError; g.raised records it.                         *)
(***************************************************************************)
RECURSIVE processFrames(_, _, _, _)
processFrames(g, mf, frames, threadName) ==
  IF frames = <<>> THEN g
  ELSE processFrames(getOrCreateNode(g, mf, Head(frames), threadName).g, mf,
                     Tail(frames), threadName)

stackOf(stacks, sample) ==
  IF Has(sample, "stackId") /\ (sample.stackId + 1) \in DOMAIN stacks
  THEN stacks[sample.stackId + 1] ELSE Undefined

RECURSIVE processSamples(_, _, _, _, _, _, _)
processSamples(g, mf, samples, stacks, frames, startTime, threadName) ==
  IF samples = <<>> THEN [g |-> g, raised |-> FALSE]
  ELSE LET sample == Head(samples)
           stack == stackOf(stacks, sample)
       IN IF stack # Undefined /\ Has(stack, "frameId")
          THEN IF (stack.frameId + 1) \notin DOMAIN frames
               THEN [g |-> g, raised |-> TRUE]
               ELSE LET r == getOrCreateNode(g, mf, frames[stack.frameId + 1], threadName)
                        cumulativeTime == (sample.timestamp - startTime) * 1000
                        g2 == [r.g EXCEPT !.samples = Append(@, r.nodeId),
                                          !.timeDeltas = Append(@, cumulativeTime)]
                    IN processSamples(g2, mf, Tail(samples), stacks, frames,
                                      startTime, threadName)
          ELSE processSamples(g, mf, Tail(samples), stacks, frames, startTime, threadName)

processTrace(g, mf, trace, startTime, threadName) ==
  LET frames == IF Has(trace, "frames") THEN trace.frames ELSE <<>>
      g1 == processFrames(g, mf, frames, threadName)
  IN processSamples(g1, mf, trace.samples, trace.stacks, frames, startTime, threadName)

generateFromTrace(g, mf, trace, startTime, endTime, threadName) ==
  LET g0 == [reset(g) EXCEPT !.startTime = startTime]
  IN IF trace = Null \/ ~Has(trace, "samples") \/ ~Has(trace, "stacks")
     THEN [g |-> g0, ret |-> getEmptyProfile(startTime, endTime)]
     ELSE LET r == processTrace(g0, mf, trace, startTime, threadName)
          IN [g |-> r.g,
              ret |-> IF r.raised THEN RaisedError("TypeError")
                      ELSE ProfileOf(r.g, startTime, endTime)]

(***************************************************************************)
(* Instrumentation records: addWorkerPerformanceData, normalizeTimeDeltas, *)
(* generateFromSingleWorkerData.  Array.prototype.sort is stable and sorts *)
(* the caller's array in place.                                            *)
(***************************************************************************)
workerNodeKey(functionName, workerId) ==
  LET threadName == "Worker-" \o workerId
      url == threadName \o "://" \o functionName
  IN threadName \o "::" \o functionName \o "::" \o url \o "::0::0"

bumpHitCountKeeps(nodes, nodeId) == nodes

RECURSIVE bumpHitCount(_, _)
bumpHitCount(nodes, nodeId) ==
  IF nodes = <<>> THEN <<>>
  ELSE IF Head(nodes).id = nodeId
       THEN <<[Head(nodes) EXCEPT !.hitCount = @ + 1]>> \o Tail(nodes)
       ELSE <<Head(nodes)>> \o bumpHitCount(Tail(nodes), nodeId)

addWorkerPerformanceData(g, data, workerId) ==
  LET threadName == "Worker-" \o workerId
      functionName == data.functionName
      url == threadName \o "://" \o functionName
      nodeKey == workerNodeKey(functionName, workerId)
      cumulativeTime == (data.startTime - g.startTime) * 1000
      r == IF nodeKey \in DOMAIN g.nodeMap
           THEN [g |-> [g EXCEPT !.nodes = bumpHitCount(@, g.nodeMap[nodeKey])],
                 nodeId |-> g.nodeMap[nodeKey]]
           ELSE LET nodeId == g.nodeIdCounter
                    g1 == [g EXCEPT !.nodeIdCounter = @ + 1]
                    sid == getScriptId(g1, url)
                    base == [id |-> nodeId,
                             callFrame |->
                               [functionName |-> "[" \o threadName \o "] " \o functionName,
                                scriptId |-> sid.scriptId,
                                url |-> url,
                                lineNumber |-> 0,
                                columnNumber |-> 0],
                             hitCount |-> 1]
                    node == IF Has(data, "marker") THEN base @@ [marker |-> data.marker]
                            ELSE base
                IN [g |-> [sid.g EXCEPT !.nodes = Append(@, node),
                                        !.nodeMap = @ @@ (nodeKey :> nodeId)],
                    nodeId |-> nodeId]
  IN [r.g EXCEPT !.samples = Append(@, r.nodeId),
                 !.timeDeltas = Append(@, cumulativeTime)]

RECURSIVE normalizeFrom(_, _)
normalizeFrom(timeDeltas, lastTime) ==
  IF timeDeltas = <<>> THEN <<>>
  ELSE LET t == IF Head(timeDeltas) < lastTime THEN lastTime + 1 ELSE Head(timeDeltas)
       IN <<t>> \o normalizeFrom(Tail(timeDeltas), t)

normalizeTimeDeltasKeeps(timeDeltas) == timeDeltas

normalizeTimeDeltas(timeDeltas) == normalizeFrom(timeDeltas, 0)

RECURSIVE insertByStartTime(_, _)
insertByStartTime(sorted, x) ==
  IF sorted = <<>> THEN <<x>>
  ELSE IF x.startTime < Head(sorted).startTime THEN <<x>> \o sorted
       ELSE <<Head(sorted)>> \o insertByStartTime(Tail(sorted), x)

RECURSIVE sortByStartTime(_)
sortByStartTime(s) ==
  IF s = <<>> THEN <<>>
  ELSE insertByStartTime(sortByStartTime(SubSeq(s, 1, Len(s) - 1)), s[Len(s)])

RECURSIVE addAll(_, _, _)
addAll(g, sortedData, workerId) ==
  IF sortedData = <<>> THEN g
  ELSE addAll(addWorkerPerformanceData(g, Head(sortedData), workerId),
              Tail(sortedData), workerId)

generateFromSingleWorkerData(g, workerData, startTime, endTime, workerId) ==
  LET g0 == [reset(g) EXCEPT !.startTime = startTime]
      sortedData == sortByStartTime(workerData)
      g1 == addAll(g0, sortedData, workerId)
      g2 == [g1 EXCEPT !.timeDeltas = normalizeTimeDeltas(@)]
  IN [g |-> g2, workerData |-> sortedData, ret |-> ProfileOf(g2, startTime, endTime)]

(***************************************************************************)
(* mergeProfiles.                                                          *)
(***************************************************************************)
minStartTimeOfFirst(profiles) == profiles[1].startTime

RECURSIVE minStartTime(_)
minStartTime(profiles) ==
  IF Len(profiles) = 1 THEN profiles[1].startTime
  ELSE LET m == minStartTime(Tail(profiles))
       IN IF profiles[1].startTime <= m THEN profiles[1].startTime ELSE m

RECURSIVE maxEndTime(_)
maxEndTime(profiles) ==
  IF Len(profiles) = 1 THEN profiles[1].endTime
  ELSE Max2(profiles[1].endTime, maxEndTime(Tail(profiles)))

mergedNodeIdNoOffset(nodeIdOffset, node) == node.id

mergedNodeId(nodeIdOffset, node) == nodeIdOffset + node.id

RECURSIVE nodeMappingOf(_, _)
nodeMappingOf(nodes, nodeIdOffset) ==
  IF nodes = <<>> THEN EmptyMap
  ELSE LET n == nodes[Len(nodes)]
       IN (n.id :> mergedNodeId(nodeIdOffset, n))
            @@ nodeMappingOf(SubSeq(nodes, 1, Len(nodes) - 1), nodeIdOffset)

remapNodes(nodes, nodeIdOffset) ==
  [i \in 1..Len(nodes) |-> [nodes[i] EXCEPT !.id = mergedNodeId(nodeIdOffset, nodes[i])]]

mappedNodeIdUnmapped(nodeMapping, originalNodeId) == originalNodeId

mappedNodeId(nodeMapping, originalNodeId) ==
  IF originalNodeId \in DOMAIN nodeMapping /\ nodeMapping[originalNodeId] # 0
  THEN nodeMapping[originalNodeId] ELSE originalNodeId

nextCumulativeTimeNoBump(cumulativeTime, adjustedDelta) ==
  IF adjustedDelta >= cumulativeTime THEN adjustedDelta ELSE cumulativeTime + 1

nextCumulativeTime(cumulativeTime, adjustedDelta) ==
  IF adjustedDelta > cumulativeTime THEN adjustedDelta ELSE cumulativeTime + 1

timeDeltaAt(profile, i) ==
  IF i \in DOMAIN profile.timeDeltas THEN profile.timeDeltas[i] ELSE 0

RECURSIVE mergeSamples(_, _, _, _, _)
mergeSamples(m, profile, nodeMapping, timeOffset, i) ==
  IF i > Len(profile.samples) THEN m
  ELSE LET adjustedDelta == timeOffset + timeDeltaAt(profile, i)
           cumulativeTime == nextCumulativeTime(m.cumulativeTime, adjustedDelta)
       IN mergeSamples([m EXCEPT !.samples = Append(@, mappedNodeId(nodeMapping,
                                                                      profile.samples[i])),
                                 !.timeDeltas = Append(@, cumulativeTime),
                                 !.cumulativeTime = cumulativeTime],
                       profile, nodeMapping, timeOffset, i + 1)

RECURSIVE mergeSamplesDropping(_, _, _, _, _)
mergeSamplesDropping(m, profile, nodeMapping, timeOffset, i) ==
  IF i > Len(profile.samples) THEN m
  ELSE LET adjustedDelta == timeOffset + timeDeltaAt(profile, i)
       IN IF adjustedDelta > m.cumulativeTime
          THEN mergeSamplesDropping(
                 [m EXCEPT !.samples = Append(@, mappedNodeId(nodeMapping,
                                                               profile.samples[i])),
                           !.timeDeltas = Append(@, adjustedDelta),
                           !.cumulativeTime = adjustedDelta],
                 profile, nodeMapping, timeOffset, i + 1)
          ELSE mergeSamplesDropping(m, profile, nodeMapping, timeOffset, i + 1)

mergeOneDropping(m, profile) ==
  LET timeOffset == (profile.startTime - m.startTime) * 1000
      nodeMapping == nodeMappingOf(profile.nodes, m.nodeIdOffset)
      m1 == [m EXCEPT !.nodes = @ \o remapNodes(profile.nodes, m.nodeIdOffset)]
      m2 == mergeSamplesDropping(m1, profile, nodeMapping, timeOffset, 1)
  IN [m2 EXCEPT !.nodeIdOffset = @ + Len(profile.nodes)]

mergeOne(m, profile) ==
  LET timeOffset == (profile.startTime - m.startTime) * 1000
      nodeMapping == nodeMappingOf(profile.nodes, m.nodeIdOffset)
      m1 == [m EXCEPT !.nodes = @ \o remapNodes(profile.nodes, m.nodeIdOffset)]
      m2 == mergeSamples(m1, profile, nodeMapping, timeOffset, 1)
  IN [m2 EXCEPT !.nodeIdOffset = @ + Len(profile.nodes)]

RECURSIVE mergeAll(_, _)
mergeAll(m, sortedProfiles) ==
  IF sortedProfiles = <<>> THEN m
  ELSE mergeAll(mergeOne(m, Head(sortedProfiles)), Tail(sortedProfiles))

mergeNonEmpty(profiles) ==
  LET start == [nodes |-> <<>>, samples |-> <<>>, timeDeltas |-> <<>>,
                startTime |-> minStartTime(profiles), endTime |-> maxEndTime(profiles),
                nodeIdOffset |-> 0, cumulativeTime |-> 0]
      m == mergeAll(start, sortByStartTime(profiles))
  IN [nodes |-> m.nodes, samples |-> m.samples, timeDeltas |-> m.timeDeltas,
      startTime |-> m.startTime, endTime |-> m.endTime]

mergeProfilesNoThrow(profiles) ==
  IF Len(profiles) = 0 THEN getEmptyProfile(0, 0) ELSE mergeNonEmpty(profiles)

mergeProfiles(profiles) ==
  IF Len(profiles) = 0 THEN RaisedError("Cannot merge empty profiles")
  ELSE mergeNonEmpty(profiles)

(***************************************************************************)
(* generateSpeedscopeFormat.  A Map is the sequence of its entries         *)
(* [workerId, ...] in insertion order; the optional workerGroups is        *)
(* Undefined or [entries |-> the Map].  Frame ids are the 0-based          *)
(* positions in frames.                                                    *)
(***************************************************************************)
NominalDuration == 100

EntryOf(entries, workerId) ==
  LET hits == {i \in DOMAIN entries : entries[i].workerId = workerId}
  IN IF hits = {} THEN Undefined ELSE entries[CHOOSE i \in hits : TRUE]

RECURSIVE minOf(_)
minOf(S) ==
  LET x == CHOOSE y \in S : TRUE
  IN IF S = {x} THEN x
     ELSE LET m == minOf(S \ {x}) IN IF x <= m THEN x ELSE m

RECURSIVE maxOf(_)
maxOf(S) ==
  LET x == CHOOSE y \in S : TRUE
  IN IF S = {x} THEN x ELSE Max2(x, maxOf(S \ {x}))

actualStartTimeOf(workerGroups, baseStartTime) ==
  IF workerGroups = Undefined \/ Len(workerGroups.entries) = 0 THEN baseStartTime
  ELSE LET groups == workerGroups.entries
           starts == UNION {{groups[i].data[j].startTime : j \in DOMAIN groups[i].data} :
                            i \in DOMAIN groups}
       IN IF starts # {} /\ minOf(starts) < baseStartTime THEN minOf(starts)
          ELSE baseStartTime

nodeFrameKey(node) ==
  node.callFrame.functionName \o "::" \o node.callFrame.url \o "::"
    \o ToString(node.callFrame.lineNumber) \o "::" \o ToString(node.callFrame.columnNumber)

frameOfNode(node) ==
  [name |-> node.callFrame.functionName,
   file |-> IF node.callFrame.url = "" THEN "(unknown)" ELSE node.callFrame.url,
   line |-> node.callFrame.lineNumber,
   col |-> node.callFrame.columnNumber]

EmptyFrameTable == [frameMap |-> EmptyMap, frames |-> <<>>]

RECURSIVE collectFrames(_, _)
collectFrames(ft, nodes) ==
  IF nodes = <<>> THEN ft
  ELSE LET node == Head(nodes)
           key == nodeFrameKey(node)
           ft1 == IF key \in DOMAIN ft.frameMap THEN ft
                  ELSE [frameMap |-> ft.frameMap @@ (key :> Len(ft.frames)),
                        frames |-> Append(ft.frames, frameOfNode(node))]
       IN collectFrames(ft1, Tail(nodes))

RECURSIVE collectWorkerFrames(_, _)
collectWorkerFrames(ft, workerProfiles) ==
  IF workerProfiles = <<>> THEN ft
  ELSE collectWorkerFrames(collectFrames(ft, Head(workerProfiles).profile.nodes),
                           Tail(workerProfiles))

(* The main thread's sampled track. *)
RECURSIVE mainThreadMap(_, _)
mainThreadMap(ft, nodes) ==
  IF nodes = <<>> THEN EmptyMap
  ELSE LET n == nodes[Len(nodes)]
       IN (n.id :> ft.frameMap[nodeFrameKey(n)])
            @@ mainThreadMap(ft, SubSeq(nodes, 1, Len(nodes) - 1))

RECURSIVE sampledTrack(_, _, _, _, _)
sampledTrack(profile, threadMap, i, lastTime, acc) ==
  IF i > Len(profile.samples) THEN acc
  ELSE IF profile.samples[i] \in DOMAIN threadMap
       THEN LET currentTime == timeDeltaAt(profile, i)
            IN sampledTrack(profile, threadMap, i + 1, currentTime,
                            [samples |-> Append(acc.samples, threadMap[profile.samples[i]]),
                             weights |-> Append(acc.weights,
                                                Max2(currentTime - lastTime, 1))])
       ELSE sampledTrack(profile, threadMap, i + 1, lastTime, acc)

emptySampledTrack(endValue) ==
  [type |-> "sampled", name |-> "Main Thread", unit |-> "microseconds",
   startValue |-> 0, endValue |-> endValue, samples |-> <<>>, weights |-> <<>>]

mainTracksAlwaysTrack(ft, mainThreadProfile, baseStartTime) ==
  IF mainThreadProfile = Null THEN <<emptySampledTrack(1000)>>
  ELSE IF Len(mainThreadProfile.samples) > 0
  THEN LET threadMap == mainThreadMap(ft, mainThreadProfile.nodes)
           t == sampledTrack(mainThreadProfile, threadMap, 1, 0,
                             [samples |-> <<>>, weights |-> <<>>])
           lastTime == IF Len(mainThreadProfile.timeDeltas) > 0
                       THEN mainThreadProfile.timeDeltas[Len(mainThreadProfile.timeDeltas)]
                       ELSE (mainThreadProfile.endTime - mainThreadProfile.startTime) * 1000
       IN IF Len(t.samples) > 0
          THEN <<[type |-> "sampled", name |-> "Main Thread", unit |-> "microseconds",
                  startValue |-> 0, endValue |-> Max2(lastTime, 1),
                  samples |-> t.samples, weights |-> t.weights]>>
          ELSE <<>>
  ELSE LET endTime == IF mainThreadProfile.endTime # 0 THEN mainThreadProfile.endTime
                      ELSE baseStartTime + 1000
           startTime == IF mainThreadProfile.startTime # 0 THEN mainThreadProfile.startTime
                        ELSE baseStartTime
       IN <<emptySampledTrack(Max2((endTime - startTime) * 1000, 1000))>>

mainTracksNoEmptyTrack(ft, mainThreadProfile, baseStartTime) ==
  IF mainThreadProfile = Null THEN <<>>
  ELSE IF Len(mainThreadProfile.samples) > 0
  THEN LET threadMap == mainThreadMap(ft, mainThreadProfile.nodes)
           t == sampledTrack(mainThreadProfile, threadMap, 1, 0,
                             [samples |-> <<>>, weights |-> <<>>])
           lastTime == IF Len(mainThreadProfile.timeDeltas) > 0
                       THEN mainThreadProfile.timeDeltas[Len(mainThreadProfile.timeDeltas)]
                       ELSE (mainThreadProfile.endTime - mainThreadProfile.startTime) * 1000
       IN IF Len(t.samples) > 0
          THEN <<[type |-> "sampled", name |-> "Main Thread", unit |-> "microseconds",
                  startValue |-> 0, endValue |-> Max2(lastTime, 1),
                  samples |-> t.samples, weights |-> t.weights]>>
          ELSE <<>>
  ELSE <<>>

mainTracks(ft, mainThreadProfile, baseStartTime) ==
  IF mainThreadProfile = Null THEN <<>>
  ELSE IF Len(mainThreadProfile.samples) > 0
  THEN LET threadMap == mainThreadMap(ft, mainThreadProfile.nodes)
           t == sampledTrack(mainThreadProfile, threadMap, 1, 0,
                             [samples |-> <<>>, weights |-> <<>>])
           lastTime == IF Len(mainThreadProfile.timeDeltas) > 0
                       THEN mainThreadProfile.timeDeltas[Len(mainThreadProfile.timeDeltas)]
                       ELSE (mainThreadProfile.endTime - mainThreadProfile.startTime) * 1000
       IN IF Len(t.samples) > 0
          THEN <<[type |-> "sampled", name |-> "Main Thread", unit |-> "microseconds",
                  startValue |-> 0, endValue |-> Max2(lastTime, 1),
                  samples |-> t.samples, weights |-> t.weights]>>
          ELSE <<>>
  ELSE LET endTime == IF mainThreadProfile.endTime # 0 THEN mainThreadProfile.endTime
                      ELSE baseStartTime + 1000
           startTime == IF mainThreadProfile.startTime # 0 THEN mainThreadProfile.startTime
                        ELSE baseStartTime
       IN <<emptySampledTrack(Max2((endTime - startTime) * 1000, 1000))>>

(* A worker's evented track. *)
workerThreadName(workerId) ==
  "web-worker-" \o (IF StartsWith(workerId, "worker-")
                    THEN SubSeq(workerId, Len("worker-") + 1, Len(workerId))
                    ELSE workerId)

stripThreadPrefix(functionName, threadPrefix) ==
  IF StartsWith(functionName, threadPrefix)
  THEN SubSeq(functionName, Len(threadPrefix) + 1, Len(functionName))
  ELSE functionName

\* frameMap.entries() is walked in insertion order; every key is inserted once, with
\* the next frame id, so the first match is the match of least frame id.
RECURSIVE workerThreadMap(_, _)
workerThreadMap(st, nodes) ==
  IF nodes = <<>> THEN st
  ELSE LET node == Head(nodes)
           ft == st.ft
           key == nodeFrameKey(node)
           similar == {k \in DOMAIN ft.frameMap :
                         /\ Includes(k, node.callFrame.functionName)
                         /\ Includes(k, node.callFrame.url)}
           found == key \in DOMAIN ft.frameMap \/ similar # {}
           frameIdx == IF key \in DOMAIN ft.frameMap THEN ft.frameMap[key]
                       ELSE IF similar # {} THEN minOf({ft.frameMap[k] : k \in similar})
                       ELSE Len(ft.frames)
           ft1 == IF found THEN ft
                  ELSE [frameMap |-> (key :> frameIdx) @@ ft.frameMap,
                        frames |-> Append(ft.frames, frameOfNode(node))]
       IN workerThreadMap([ft |-> ft1, threadMap |-> (node.id :> frameIdx) @@ st.threadMap],
                          Tail(nodes))

RECURSIVE namesFromThreadMap(_, _, _, _)
namesFromThreadMap(fn2f, nodes, threadMap, threadPrefix) ==
  IF nodes = <<>> THEN fn2f
  ELSE LET node == Head(nodes)
           name == stripThreadPrefix(node.callFrame.functionName, threadPrefix)
           next == IF node.id \in DOMAIN threadMap /\ name \notin DOMAIN fn2f
                   THEN fn2f @@ (name :> threadMap[node.id]) ELSE fn2f
       IN namesFromThreadMap(next, Tail(nodes), threadMap, threadPrefix)

RECURSIVE namesFromFrameMap(_, _, _, _)
namesFromFrameMap(fn2f, nodes, frameMap, threadPrefix) ==
  IF nodes = <<>> THEN fn2f
  ELSE LET node == Head(nodes)
           key == nodeFrameKey(node)
           name == stripThreadPrefix(node.callFrame.functionName, threadPrefix)
           next == IF key \in DOMAIN frameMap /\ name \notin DOMAIN fn2f
                   THEN fn2f @@ (name :> frameMap[key]) ELSE fn2f
       IN namesFromFrameMap(next, Tail(nodes), frameMap, threadPrefix)

functionNameToFrameIdOf(profile, threadMap, frameMap, threadPrefix) ==
  LET first == namesFromThreadMap(EmptyMap, profile.nodes, threadMap, threadPrefix)
  IN IF DOMAIN first = {}
     THEN namesFromFrameMap(EmptyMap, profile.nodes, frameMap, threadPrefix)
     ELSE first

\* The samples i whose node carries the record's function name and has a frame.
samplesNaming(profile, threadMap, threadPrefix, functionName) ==
  {i \in DOMAIN profile.samples :
     /\ \E k \in DOMAIN profile.nodes : profile.nodes[k].id = profile.samples[i]
     /\ LET ks == {k \in DOMAIN profile.nodes : profile.nodes[k].id = profile.samples[i]}
            node == profile.nodes[minOf(ks)]
        IN stripThreadPrefix(node.callFrame.functionName, threadPrefix) = functionName
     /\ profile.samples[i] \in DOMAIN threadMap}

timesValidNoEndCheck(startAt, endAt) == startAt >= 0

timesValid(startAt, endAt) == startAt >= 0 /\ endAt >= startAt

recordEvents(data, frameId, actualStartTime) ==
  LET startAt == (data.startTime - actualStartTime) * 1000
      endAt == (data.endTime - actualStartTime) * 1000
  IN IF timesValid(startAt, endAt)
     THEN <<[at |-> startAt, frame |-> frameId, type |-> "O"],
            [at |-> endAt, frame |-> frameId, type |-> "C"]>>
     ELSE <<>>

newFrameIdPastEnd(frames) == Len(frames) + 1

newFrameId(frames) == Len(frames)

RECURSIVE rawEvents(_, _, _, _, _, _, _)
rawEvents(st, workerData, profile, threadMap, threadPrefix, workerId, actualStartTime) ==
  IF workerData = <<>> THEN st
  ELSE LET data == Head(workerData)
           name == data.functionName
           bySamples == IF name \in DOMAIN st.fn2f THEN {}
                        ELSE samplesNaming(profile, threadMap, threadPrefix, name)
           known == name \in DOMAIN st.fn2f \/ bySamples # {}
           frameId == IF name \in DOMAIN st.fn2f THEN st.fn2f[name]
                      ELSE IF bySamples # {} THEN threadMap[profile.samples[minOf(bySamples)]]
                      ELSE newFrameId(st.ft.frames)
           newKey == name \o "::worker-" \o workerId \o "://" \o name \o "::0::0"
           ft1 == IF known THEN st.ft
                  ELSE [frameMap |-> (newKey :> frameId) @@ st.ft.frameMap,
                        frames |-> Append(st.ft.frames,
                                          [name |-> name,
                                           file |-> "worker-" \o workerId \o "://" \o name,
                                           line |-> 0, col |-> 0])]
           st1 == [ft |-> ft1,
                   fn2f |-> (name :> frameId) @@ st.fn2f,
                   eventList |-> st.eventList \o recordEvents(data, frameId, actualStartTime)]
       IN rawEvents(st1, Tail(workerData), profile, threadMap, threadPrefix, workerId,
                    actualStartTime)

RECURSIVE insertByAt(_, _)
insertByAt(sorted, x) ==
  IF sorted = <<>> THEN <<x>>
  ELSE IF x.at < Head(sorted).at THEN <<x>> \o sorted
       ELSE <<Head(sorted)>> \o insertByAt(Tail(sorted), x)

RECURSIVE sortedByAt(_)
sortedByAt(s) ==
  IF s = <<>> THEN <<>>
  ELSE insertByAt(sortedByAt(SubSeq(s, 1, Len(s) - 1)), s[Len(s)])

unsortedByAt(s) == s

sortByAt(s) == sortedByAt(s)

RECURSIVE degradedEvents(_, _, _)
degradedEvents(profile, threadMap, i) ==
  IF i > Len(profile.samples) THEN <<>>
  ELSE LET nodeId == profile.samples[i]
           time == timeDeltaAt(profile, i)
           pair == IF nodeId \in DOMAIN threadMap
                   THEN <<[type |-> "O", at |-> time, frame |-> threadMap[nodeId]],
                          [type |-> "C", at |-> time + NominalDuration,
                           frame |-> threadMap[nodeId]]>>
                   ELSE <<>>
       IN pair \o degradedEvents(profile, threadMap, i + 1)

workerTrack(st, entry, workerGroups, actualStartTime) ==
  LET workerId == entry.workerId
      profile == entry.profile
      threadName == workerThreadName(workerId)
      threadPrefix == "[" \o threadName \o "] "
      tm == workerThreadMap([ft |-> st.ft, threadMap |-> EmptyMap], profile.nodes)
      group == IF workerGroups = Undefined THEN Undefined
               ELSE EntryOf(workerGroups.entries, workerId)
      raw == rawEvents([ft |-> tm.ft,
                        fn2f |-> functionNameToFrameIdOf(profile, tm.threadMap,
                                                         tm.ft.frameMap, threadPrefix),
                        eventList |-> <<>>],
                       group.data, profile, tm.threadMap, threadPrefix, workerId,
                       actualStartTime)
      ft2 == IF group = Undefined THEN tm.ft ELSE raw.ft
      events == IF group = Undefined
                THEN sortByAt(degradedEvents(profile, tm.threadMap, 1))
                ELSE sortByAt(raw.eventList)
      times == {events[i].at : i \in DOMAIN events}
  IN [ft |-> ft2,
      profiles |-> IF Len(events) > 0
                   THEN Append(st.profiles,
                               [type |-> "evented", name |-> threadName,
                                unit |-> "microseconds", startValue |-> minOf(times),
                                endValue |-> maxOf(times), events |-> events])
                   ELSE st.profiles]

RECURSIVE workerTracks(_, _, _, _)
workerTracks(st, workerProfiles, workerGroups, actualStartTime) ==
  IF workerProfiles = <<>> THEN st
  ELSE workerTracks(workerTrack(st, Head(workerProfiles), workerGroups, actualStartTime),
                    Tail(workerProfiles), workerGroups, actualStartTime)

(* The validation pass over the tracks, and the artifact. *)
validateTrack(profile) ==
  IF profile.type = "sampled"
  THEN LET minLength == IF Len(profile.samples) <= Len(profile.weights)
                        THEN Len(profile.samples) ELSE Len(profile.weights)
           p1 == [profile EXCEPT !.samples = SubSeq(@, 1, minLength),
                                 !.weights = SubSeq(@, 1, minLength)]
       IN IF p1.endValue <= p1.startValue
          THEN [p1 EXCEPT !.endValue = Max2(p1.startValue + 1000, 1)]
          ELSE p1
  ELSE profile

generateSpeedscopeFormat(mainThreadProfile, workerProfiles, workerGroups, baseStartTime) ==
  LET actualStartTime == actualStartTimeOf(workerGroups, baseStartTime)
      ft0 == IF mainThreadProfile = Null THEN EmptyFrameTable
             ELSE collectFrames(EmptyFrameTable, mainThreadProfile.nodes)
      ft1 == collectWorkerFrames(ft0, workerProfiles)
      st == workerTracks([ft |-> ft1,
                          profiles |-> mainTracks(ft1, mainThreadProfile, baseStartTime)],
                         workerProfiles, workerGroups, actualStartTime)
      p1 == IF mainThreadProfile # Null /\ Len(st.profiles) = 0
            THEN <<emptySampledTrack(1000)>> ELSE st.profiles
      p2 == IF Len(st.ft.frames) = 0 /\ Len(p1) = 0 /\ mainThreadProfile # Null
            THEN <<emptySampledTrack(Max2((mainThreadProfile.endTime
                                            - mainThreadProfile.startTime) * 1000, 1000))>>
            ELSE p1
  IN [schema |-> "https://www.speedscope.app/file-format-schema.json",
      shared |-> [frames |-> st.ft.frames],
      profiles |-> [i \in 1..Len(p2) |-> validateTrack(p2[i])],
      name |-> "Performance Profile"]

(***************************************************************************)
(* The inputs.  Times are taken from Times; every run ends at EndTime.     *)
(***************************************************************************)
Times == 0..2
EndTimes == {3}
WorkerIds == {"worker-0", "0"}
FunctionNames == {"f", "g"}

MarkerOfF == [functionName |-> "f", category |-> "custom", color |-> "#95e1d3"]

Record(workerId, functionName, startTime, endTime) ==
  [workerId |-> workerId, functionName |-> functionName, startTime |-> startTime,
   endTime |-> endTime, duration |-> endTime - startTime]

RecordsOf(workerId) ==
  {Record(workerId, n, s, e) : n \in FunctionNames, s \in Times, e \in Times}
    \cup {Record(workerId, "f", 0, 1) @@ [marker |-> MarkerOfF]}

\* Trace frames: without a location, with the wildcard location, of another
\* resource, at two locations whose digits read the same when run together,
\* without a name, and of another function.
FramePlain == [name |-> "f"]
FrameAtZero == [name |-> "f", line |-> 0, column |-> 0]
FrameOfResource == [name |-> "f", resourceId |-> 1, line |-> 0, column |-> 0]
FrameAt1x11 == [name |-> "f", line |-> 1, column |-> 11]
FrameAt11x1 == [name |-> "f", line |-> 11, column |-> 1]
FrameAt1x1 == [name |-> "f", line |-> 1, column |-> 1]
FrameUnnamed == [name |-> "", line |-> 0, column |-> 0]
FrameOfG == [name |-> "g", line |-> 0, column |-> 0]

FrameTables ==
  {<<>>, <<FrameAtZero>>, <<FramePlain, FrameAtZero>>, <<FrameAtZero, FrameOfResource>>,
   <<FrameAt1x11, FrameAt11x1>>, <<FrameAt1x1, FrameAt1x11>>, <<FrameAtZero, FrameOfG>>,
   <<FrameUnnamed, FrameAtZero>>, <<FrameAtZero, FrameAtZero>>}

\* Stack 0 and 1 name frame 0 and 1, stack 2 names no frame; stack 3 does not exist.
TraceStacks == <<[frameId |-> 0], [frameId |-> 1], [parentId |-> 0]>>

TraceSamples == {[timestamp |-> t, stackId |-> k] : t \in Times, k \in 0..3}

Traces ==
  {[frames |-> ft, stacks |-> TraceStacks, samples |-> ss] :
     ft \in FrameTables, ss \in SeqsUpTo(TraceSamples, MaxSamples)}
    \cup {Null, [frames |-> <<FrameAtZero>>, stacks |-> TraceStacks],
          [frames |-> <<FrameAtZero>>, samples |-> <<[timestamp |-> 1, stackId |-> 0]>>]}

TraceCalls ==
  {[op |-> "generateFromTrace", trace |-> tr, startTime |-> 1, endTime |-> e,
    threadName |-> th] :
     tr \in Traces, e \in EndTimes, th \in {"Main Thread", "Worker-1"}}

\* One worker's records of three functions that run one after the other.
ThreeInARow ==
  [op |-> "generateFromSingleWorkerData",
   workerData |-> <<Record("worker-0", "decodeImage", 10, 15),
                    Record("worker-0", "fetchImage", 0, 10),
                    Record("worker-0", "processImage", 15, 20)>>,
   startTime |-> 0, endTime |-> 20, workerId |-> "worker-0"]

RecordCalls ==
  UNION {{[op |-> "generateFromSingleWorkerData", workerData |-> wd, startTime |-> s,
           endTime |-> e, workerId |-> w] :
            wd \in SeqsUpTo(RecordsOf(w), MaxRecords), s \in 0..1, e \in EndTimes} :
         w \in WorkerIds}
    \cup {ThreeInARow}

\* The profiles handed to mergeProfiles are profiles the generator returns.
TraceProfile(frames, samples, startTime, endTime) ==
  generateFromTrace(FreshGen, EmptyMap,
                    [frames |-> frames, stacks |-> TraceStacks, samples |-> samples],
                    startTime, endTime, "Main Thread").ret

RecordProfile(workerData, startTime, endTime, workerId) ==
  generateFromSingleWorkerData(FreshGen, workerData, startTime, endTime, workerId).ret

SampledMain ==
  TraceProfile(<<FrameAtZero, FrameOfG>>,
               <<[timestamp |-> 2, stackId |-> 0], [timestamp |-> 1, stackId |-> 1]>>, 0, 3)

InstrumentedMain ==
  RecordProfile(<<Record("web-main", "f", 1, 2), Record("web-main", "g", 2, 2)>>,
                0, 3, "web-main")

ProfileSet ==
  {SampledMain,
   TraceProfile(<<FrameAtZero, FrameOfG>>, <<[timestamp |-> 2, stackId |-> 1]>>, 1, 2),
   getEmptyProfile(1, 1),
   RecordProfile(<<Record("worker-0", "f", 0, 1), Record("worker-0", "g", 1, 2)>>,
                 0, 3, "worker-0"),
   RecordProfile(<<Record("worker-0", "f", 1, 2), Record("worker-0", "f", 2, 2)>>,
                 1, 3, "worker-0"),
   RecordProfile(<<Record("0", "f", 0, 1), Record("0", "g", 1, 2)>>, 0, 3, "0"),
   RecordProfile(<<Record("0", "f", 2, 1)>>, 2, 3, "0"),
   mergeNonEmpty(<<SampledMain, InstrumentedMain>>)}

MergeCalls ==
  {[op |-> "mergeProfiles", profiles |-> ps] : ps \in SeqsUpTo(ProfileSet, MaxProfiles)}

\* generateSpeedscopeFormat is called as PerformanceMonitor calls it: the worker
\* profiles are built from the grouped records, which the build has sorted; the
\* groups are passed along, or left out.
MainProfiles ==
  {Null, SampledMain, InstrumentedMain, getEmptyProfile(0, 3),
   mergeNonEmpty(<<SampledMain, InstrumentedMain>>)}

ExportRecords(workerId) ==
  {Record(workerId, "f", 0, 1), Record(workerId, "f", 1, 0), Record(workerId, "g", 1, 2),
   Record(workerId, "g", 0, 2), Record(workerId, "f", 2, 2), Record(workerId, "g", 2, 1)}

FirstGroups ==
  {<<[workerId |-> "worker-0", data |-> d]>> :
     d \in SeqsUpTo(ExportRecords("worker-0"), MaxRecords) \ {<<>>}}

SecondGroups ==
  {<<[workerId |-> "0", data |-> d]>> :
     d \in {<<Record("0", "f", 0, 2)>>,
            <<Record("0", "g", 1, 1), Record("0", "f", 0, 1)>>}}

GroupLists == {<<>>} \cup FirstGroups \cup {a \o b : a \in FirstGroups, b \in SecondGroups}

ExportCall(main, groups, passGroups, base, endTime) ==
  LET built == [i \in DOMAIN groups |->
                  generateFromSingleWorkerData(FreshGen, groups[i].data, base, endTime,
                                               groups[i].workerId)]
  IN [op |-> "generateSpeedscopeFormat",
      mainThreadProfile |-> main,
      workerProfiles |-> [i \in DOMAIN groups |->
                            [workerId |-> groups[i].workerId, profile |-> built[i].ret]],
      workerGroups |-> IF passGroups
                       THEN [entries |-> [i \in DOMAIN groups |->
                                            [workerId |-> groups[i].workerId,
                                             data |-> built[i].workerData]]]
                       ELSE Undefined,
      baseStartTime |-> base]

ExportCalls ==
  {ExportCall(m, gs, pg, b, e) :
     m \in MainProfiles, gs \in GroupLists, pg \in BOOLEAN, b \in 0..1, e \in EndTimes}

\* A generator is new, or has built a profile before.
GenStates ==
  {FreshGen,
   generateFromSingleWorkerData(FreshGen, <<Record("worker-0", "f", 1, 2)>>, 1, 3,
                                "worker-0").g,
   generateFromTrace(FreshGen, EmptyMap,
                     [frames |-> <<FrameAtZero>>, stacks |-> TraceStacks,
                      samples |-> <<[timestamp |-> 2, stackId |-> 0]>>],
                     1, 3, "Main Thread").g}

MarkerStates == {EmptyMap, ("f" :> MarkerOfF)}

(***************************************************************************)
(* MainThreadProfiler and the monitors the PerformanceMonitor starts.  The *)
(* browser is env: whether the Profiler can be used, whether               *)
(* performance.memory and PerformanceObserver exist, and the clock.  A     *)
(* running native Profiler is [trace |-> the trace it has sampled so far]. *)
(***************************************************************************)
isSupported(e) == e.profiling # "unsupported"

isAllowed(e) == isSupported(e) /\ e.profiling # "disallowed"

profilerStart(p, e) ==
  IF ~isSupported(e) THEN [p |-> p, ret |-> FALSE]
  ELSE IF ~isAllowed(e) THEN [p |-> p, ret |-> FALSE]
  ELSE IF p.isRunning THEN [p |-> p, ret |-> TRUE]
  ELSE IF e.profiling = "throws" THEN [p |-> p, ret |-> FALSE]
  ELSE IF e.profiling = "rejects"
  THEN [p |-> [p EXCEPT !.profiler = [trace |-> [frames |-> <<FrameAtZero, FrameOfG>>,
                                                 stacks |-> TraceStacks, samples |-> <<>>]]],
        ret |-> FALSE]
  ELSE [p |-> [isRunning |-> TRUE,
               profiler |-> [trace |-> [frames |-> <<FrameAtZero, FrameOfG>>,
                                        stacks |-> TraceStacks, samples |-> <<>>]]],
        ret |-> TRUE]

profilerStopStaysRunning(p) ==
  IF p.profiler = Null \/ ~p.isRunning THEN [p |-> p, ret |-> Null]
  ELSE [p |-> p, ret |-> p.profiler.trace]

\* stop() where the native Profiler's stop() fails: the error is logged.
profilerStopFails(p) ==
  IF p.profiler = Null \/ ~p.isRunning THEN [p |-> p, ret |-> Null]
  ELSE [p |-> [isRunning |-> FALSE, profiler |-> Null], ret |-> Null]

profilerStop(p) ==
  IF p.profiler = Null \/ ~p.isRunning THEN [p |-> p, ret |-> Null]
  ELSE [p |-> [isRunning |-> FALSE, profiler |-> Null], ret |-> p.profiler.trace]

memoryMonitorStart(mm, e) ==
  IF mm.isEnabled THEN mm ELSE IF ~e.memory THEN mm ELSE [isEnabled |-> TRUE]

networkMonitorStart(nm, e) ==
  IF nm.isEnabled THEN nm ELSE IF ~e.observer THEN nm ELSE [isEnabled |-> TRUE]

gcMonitorStart(gm, e) ==
  IF gm.isEnabled THEN gm ELSE IF ~e.memory THEN gm ELSE [isEnabled |-> TRUE]

gpuMonitorStart(gm) == [isEnabled |-> TRUE]

monitorStop(mon) == [isEnabled |-> FALSE]

(***************************************************************************)
(* PerformanceMonitor.                                                     *)
(***************************************************************************)
DefaultConfig == [enableNetwork |-> TRUE, enableGC |-> TRUE, enableGPU |-> TRUE]

NewMonitor(config) ==
  [startTime |-> 0,
   workerPerformanceData |-> <<>>,
   mainThreadInstrumentationData |-> <<>>,
   config |-> config,
   profiler |-> [isRunning |-> FALSE, profiler |-> Null],
   memoryMonitor |-> [isEnabled |-> FALSE],
   networkMonitor |-> [isEnabled |-> FALSE],
   gcMonitor |-> [isEnabled |-> FALSE],
   gpuMonitor |-> [isEnabled |-> FALSE]]

startBeginsKeepsBuffers(m, e) ==
  [m EXCEPT !.startTime = e.now,
            !.profiler = profilerStart(@, e).p]

\* start() up to its await: the new run's start time, the emptied buffers, and the
\* profiler, whose failure to start is a warning.
startBegins(m, e) ==
  [m EXCEPT !.startTime = e.now,
            !.workerPerformanceData = <<>>,
            !.mainThreadInstrumentationData = <<>>,
            !.profiler = profilerStart(@, e).p]

\* start() after its await: the other monitors.
startResumes(m, e) ==
  [m EXCEPT !.memoryMonitor = memoryMonitorStart(@, e),
            !.networkMonitor = IF m.config.enableNetwork THEN networkMonitorStart(@, e)
                               ELSE @,
            !.gcMonitor = IF m.config.enableGC THEN gcMonitorStart(@, e) ELSE @,
            !.gpuMonitor = IF m.config.enableGPU THEN gpuMonitorStart(@) ELSE @]

stop(m) ==
  [m EXCEPT !.profiler = profilerStop(@).p,
            !.memoryMonitor = monitorStop(@),
            !.networkMonitor = IF m.config.enableNetwork THEN monitorStop(@) ELSE @,
            !.gcMonitor = IF m.config.enableGC THEN monitorStop(@) ELSE @,
            !.gpuMonitor = IF m.config.enableGPU THEN monitorStop(@) ELSE @]

monitorAddWorkerPerformanceData(m, data) ==
  [m EXCEPT !.workerPerformanceData = Append(@, data)]

addMainThreadInstrumentationData(m, data) ==
  [m EXCEPT !.mainThreadInstrumentationData = Append(@, data)]

addMainThreadInstrumentationDataBatch(m, dataList) ==
  [m EXCEPT !.mainThreadInstrumentationData = @ \o dataList]

clear(m) ==
  [m EXCEPT !.workerPerformanceData = <<>>, !.mainThreadInstrumentationData = <<>>]

\* The records grouped by data.workerId || 'unknown', a Map in insertion order.
RECURSIVE groupByWorkerId(_, _)
groupByWorkerId(groups, workerData) ==
  IF workerData = <<>> THEN groups
  ELSE LET data == Head(workerData)
           workerId == IF Has(data, "workerId") /\ data.workerId # "" THEN data.workerId
                       ELSE "unknown"
           hit == {i \in DOMAIN groups : groups[i].workerId = workerId}
           next == IF hit = {}
                   THEN Append(groups, [workerId |-> workerId, data |-> <<data>>])
                   ELSE [i \in DOMAIN groups |->
                           IF i \in hit THEN [groups[i] EXCEPT !.data = Append(@, data)]
                           ELSE groups[i]]
       IN groupByWorkerId(next, Tail(workerData))

\* Then(value), with value computed once.
Bind(value, Then(_)) == CHOOSE result \in {Then(v) : v \in {value}} : TRUE

\* A profile per group, built one after the other by the same generator; each
\* group's array is left sorted.
RECURSIVE buildGroups(_, _, _, _)
buildGroups(st, groups, startTime, endTime) ==
  IF groups = <<>> THEN st
  ELSE Bind(generateFromSingleWorkerData(st.g, Head(groups).data, startTime, endTime,
                                         Head(groups).workerId),
            LAMBDA r :
              buildGroups([g |-> r.g,
                           profiles |-> Append(st.profiles, r.ret),
                           groups |-> Append(st.groups,
                                             [workerId |-> Head(groups).workerId,
                                              data |-> r.workerData])],
                          Tail(groups), startTime, endTime))

generateFromWorkerDataFirstGroup(g, workerData, startTime, endTime) ==
  LET workerGroups == groupByWorkerId(<<>>, workerData)
  IN Bind(generateFromSingleWorkerData(g, workerGroups[1].data, startTime, endTime,
                                       workerGroups[1].workerId),
          LAMBDA r : [g |-> r.g, ret |-> r.ret])

\* CPUProfileGenerator.generateFromWorkerData: one profile per worker, merged.
generateFromWorkerData(g, workerData, startTime, endTime) ==
  Bind(groupByWorkerId(<<>>, workerData), LAMBDA workerGroups :
    IF Len(workerGroups) = 1
    THEN Bind(generateFromSingleWorkerData(g, workerGroups[1].data, startTime, endTime,
                                           workerGroups[1].workerId),
              LAMBDA r : [g |-> r.g, ret |-> r.ret])
    ELSE Bind(buildGroups([g |-> g, profiles |-> <<>>, groups |-> <<>>],
                          workerGroups, startTime, endTime),
              LAMBDA st :
                [g |-> st.g,
                 ret |-> IF Len(st.profiles) = 0 THEN getEmptyProfile(startTime, endTime)
                         ELSE IF Len(st.profiles) = 1 THEN st.profiles[1]
                         ELSE mergeProfiles(st.profiles)]))

nonEmptyProfile(profile) == Len(profile.nodes) > 0 \/ Len(profile.samples) > 0

mergedOrNullAlwaysProfile(profiles) ==
  IF Len(profiles) = 0 THEN getEmptyProfile(0, 0)
  ELSE IF Len(profiles) = 1 THEN profiles[1]
  ELSE mergeProfiles(profiles)

mergedOrNull(profiles) ==
  IF Len(profiles) = 0 THEN Null
  ELSE IF Len(profiles) = 1 THEN profiles[1]
  ELSE mergeProfiles(profiles)

\* The profile of the trace that the Profiler hands over when it is stopped, if it
\* hands over one: [m, g, profile].
sampledProfileOf(m, g, mf, endTime) ==
  Bind(profilerStop(m.profiler), LAMBDA stopped :
    IF stopped.ret = Null
    THEN [m |-> [m EXCEPT !.profiler = stopped.p], g |-> g, profile |-> Null]
    ELSE Bind(generateFromTrace(g, mf, stopped.ret, m.startTime, endTime, "Main Thread"),
              LAMBDA main : [m |-> [m EXCEPT !.profiler = stopped.p], g |-> main.g,
                             profile |-> main.ret]))

\* generateProfile at the time endTime: [m, g, ret].
generateProfile(m, g, mf, endTime) ==
  Bind(sampledProfileOf(m, g, mf, endTime), LAMBDA main :
    IF IsError(main.profile) THEN [m |-> main.m, g |-> main.g, ret |-> main.profile]
    ELSE IF Len(m.workerPerformanceData) = 0
    THEN [m |-> main.m, g |-> main.g,
          ret |-> mergedOrNull(IF main.profile # Null THEN <<main.profile>> ELSE <<>>)]
    ELSE Bind(generateFromWorkerData(main.g, m.workerPerformanceData, m.startTime, endTime),
              LAMBDA worker :
                [m |-> main.m, g |-> worker.g,
                 ret |-> mergedOrNull((IF main.profile # Null THEN <<main.profile>>
                                       ELSE <<>>)
                                        \o (IF nonEmptyProfile(worker.ret)
                                            THEN <<worker.ret>> ELSE <<>>))]))

\* The main-thread profile of the two speedscope methods: the sampled trace, the
\* instrumentation records, or both merged.  The instrumentation buffer itself is
\* handed to the generator, which sorts it.
mainThreadProfileOf(m, g, mf, endTime) ==
  Bind(sampledProfileOf(m, g, mf, endTime), LAMBDA main :
    IF IsError(main.profile) \/ Len(m.mainThreadInstrumentationData) = 0 THEN main
    ELSE Bind(generateFromSingleWorkerData(main.g, m.mainThreadInstrumentationData,
                                           m.startTime, endTime, "web-main"),
              LAMBDA built :
                [m |-> [main.m EXCEPT !.mainThreadInstrumentationData = built.workerData],
                 g |-> built.g,
                 profile |-> IF main.profile # Null
                             THEN mergeProfiles(<<main.profile, built.ret>>)
                             ELSE built.ret]))

\* The workers' profiles that are not empty, and all the groups.
workerProfilesOf(built) ==
  SelectSeq([i \in DOMAIN built.profiles |->
               [workerId |-> built.groups[i].workerId, profile |-> built.profiles[i]]],
            LAMBDA entry : nonEmptyProfile(entry.profile))

generateSpeedscopeProfile(m, g, mf, endTime) ==
  Bind(mainThreadProfileOf(m, g, mf, endTime), LAMBDA main :
    IF IsError(main.profile) THEN [m |-> main.m, g |-> main.g, ret |-> main.profile]
    ELSE Bind(buildGroups([g |-> main.g, profiles |-> <<>>, groups |-> <<>>],
                          groupByWorkerId(<<>>, main.m.workerPerformanceData),
                          m.startTime, endTime),
              LAMBDA built :
                Bind(workerProfilesOf(built), LAMBDA workerProfiles :
                  [m |-> main.m, g |-> built.g,
                   ret |-> IF main.profile = Null /\ Len(workerProfiles) = 0 THEN Null
                           ELSE generateSpeedscopeFormat(main.profile, workerProfiles,
                                                         [entries |-> built.groups],
                                                         m.startTime)])))

\* The artifact of one worker, if its profile and its artifact are not empty.
individualProfile(r, workerId, startTime) ==
  Bind(generateSpeedscopeFormat(Null, <<[workerId |-> workerId, profile |-> r.ret]>>,
                                [entries |-> <<[workerId |-> workerId,
                                                data |-> r.workerData]>>],
                                startTime),
       LAMBDA speedscopeProfile :
         IF nonEmptyProfile(r.ret) /\ Len(speedscopeProfile.profiles) > 0
         THEN <<[threadId |-> workerThreadName(workerId), profile |-> speedscopeProfile]>>
         ELSE <<>>)

RECURSIVE individualProfiles(_, _, _, _, _)
individualProfiles(st, groups, startTime, endTime, i) ==
  IF i > Len(groups) THEN st
  ELSE Bind(generateFromSingleWorkerData(st.g, groups[i].data, startTime, endTime,
                                         groups[i].workerId),
            LAMBDA r :
              Bind([g |-> r.g,
                    profiles |-> st.profiles
                                   \o individualProfile(r, groups[i].workerId, startTime)],
                   LAMBDA next : individualProfiles(next, groups, startTime, endTime, i + 1)))

generateIndividualSpeedscopeProfiles(m, g, mf, endTime) ==
  Bind(mainThreadProfileOf(m, g, mf, endTime), LAMBDA main :
    IF IsError(main.profile) THEN [m |-> main.m, g |-> main.g, ret |-> main.profile]
    ELSE Bind(individualProfiles(
                [g |-> main.g,
                 profiles |-> <<[threadId |-> "web-main",
                                 profile |-> generateSpeedscopeFormat(
                                               main.profile, <<>>, [entries |-> <<>>],
                                               m.startTime)]>>],
                groupByWorkerId(<<>>, main.m.workerPerformanceData),
                m.startTime, endTime, 1),
              LAMBDA st : [m |-> main.m, g |-> st.g,
                           ret |-> IF Len(st.profiles) > 0 THEN st.profiles ELSE Null]))

(***************************************************************************)
(* The browsers, the monitors and the records of the orchestrated runs.    *)
(***************************************************************************)
QuietEnv == [profiling |-> "unsupported", memory |-> FALSE, observer |-> FALSE, now |-> 0]

SamplingEnv == [profiling |-> "ok", memory |-> TRUE, observer |-> TRUE, now |-> 0]

\* A monitor in a browser: the default configuration where sampling works, is not
\* there, or fails to start; and everything optional switched off where the document
\* policy forbids sampling.
Setups ==
  {[env |-> SamplingEnv, config |-> DefaultConfig],
   [env |-> QuietEnv, config |-> DefaultConfig],
   [env |-> [profiling |-> "throws", memory |-> TRUE, observer |-> FALSE, now |-> 0],
    config |-> DefaultConfig],
   [env |-> [profiling |-> "disallowed", memory |-> FALSE, observer |-> TRUE, now |-> 0],
    config |-> [enableNetwork |-> FALSE, enableGC |-> FALSE, enableGPU |-> FALSE]]}

WorkerRecords ==
  {Record("worker-0", "f", 0, 1), Record("0", "g", 1, 2)}

MainThreadRecords == {Record("web-main", "f", 2, 2), Record("web-main", "g", 1, 2)}

IdleApp == [phase |-> "idle", workers |-> <<>>]

(***************************************************************************)
(* The state machine: one call of one method of the generator.             *)
(***************************************************************************)
Init ==
  /\ pc = "call"
  /\ ret = NoReturn
  /\ monitor = NewMonitor(DefaultConfig)
  /\ env = QuietEnv
  /\ app = IdleApp
  /\ \/ /\ call \in TraceCalls
        /\ gen \in GenStates
        /\ markedFunctions \in MarkerStates
        /\ call.threadName = "Main Thread" \/ (gen = FreshGen /\ markedFunctions = EmptyMap)
     \/ /\ call \in RecordCalls
        /\ gen \in GenStates
        /\ markedFunctions = EmptyMap
     \/ /\ call \in MergeCalls \cup ExportCalls
        /\ gen = FreshGen
        /\ markedFunctions = EmptyMap

GenerateFromTrace ==
  /\ pc = "call"
  /\ call.op = "generateFromTrace"
  /\ LET r == generateFromTrace(gen, markedFunctions, call.trace, call.startTime,
                                call.endTime, call.threadName)
     IN /\ gen' = r.g
        /\ ret' = r.ret
  /\ pc' = "done"
  /\ UNCHANGED <<markedFunctions, call>>
  /\ UNCHANGED orchestration

GenerateFromSingleWorkerData ==
  /\ pc = "call"
  /\ call.op = "generateFromSingleWorkerData"
  /\ LET r == generateFromSingleWorkerData(gen, call.workerData, call.startTime,
                                           call.endTime, call.workerId)
     IN /\ gen' = r.g
        /\ ret' = r.ret
        /\ call' = [call EXCEPT !.workerData = r.workerData] @@ [given |-> call.workerData]
  /\ pc' = "done"
  /\ UNCHANGED markedFunctions
  /\ UNCHANGED orchestration

MergeProfiles ==
  /\ pc = "call"
  /\ call.op = "mergeProfiles"
  /\ ret' = mergeProfiles(call.profiles)
  /\ pc' = "done"
  /\ UNCHANGED <<gen, markedFunctions, call>>
  /\ UNCHANGED orchestration

GenerateSpeedscopeFormat ==
  /\ pc = "call"
  /\ call.op = "generateSpeedscopeFormat"
  /\ ret' = generateSpeedscopeFormat(call.mainThreadProfile, call.workerProfiles,
                                     call.workerGroups, call.baseStartTime)
  /\ pc' = "done"
  /\ UNCHANGED <<gen, markedFunctions, call>>
  /\ UNCHANGED orchestration

Next ==
  \/ GenerateFromTrace
  \/ GenerateFromSingleWorkerData
  \/ MergeProfiles
  \/ GenerateSpeedscopeFormat

Spec == Init /\ [][Next]_vars

Returned(op) == pc = "done" /\ call.op = op /\ ~IsError(ret)

(***************************************************************************)
(* The state machine of a PerformanceMonitor: its methods called in any    *)
(* order, the clock and the native Profiler's sampling between them.       *)
(* call.op is the method that made the last step; call.added are the       *)
(* records added since start() was last called, and call.trace the trace   *)
(* that the Profiler handed over when it was last stopped.                 *)
(***************************************************************************)
NoneAdded == [worker |-> <<>>, main |-> <<>>]

GenerateSteps == {"collecting", "stopped"}

\* The records a run adds are MaxRecords at most, over both buffers.
MayAdd ==
  Len(monitor.workerPerformanceData) + Len(monitor.mainThreadInstrumentationData)
    < MaxRecords

MonitorInit ==
  /\ pc = "idle"
  /\ \E setup \in Setups :
       /\ monitor = NewMonitor(setup.config)
       /\ env = setup.env
  /\ gen = FreshGen
  /\ markedFunctions = EmptyMap
  /\ call = [op |-> "new", added |-> NoneAdded, trace |-> Null]
  /\ ret = NoReturn
  /\ app = IdleApp

\* The clock, counted from the call of start().
Tick ==
  /\ pc # "idle"
  /\ env.now + 1 \in Times
  /\ env' = [env EXCEPT !.now = @ + 1]
  /\ UNCHANGED <<gen, markedFunctions, call, ret, pc, monitor, app>>

\* The running Profiler takes a sample of the main thread.
Sample ==
  /\ monitor.profiler.isRunning
  /\ Len(monitor.profiler.profiler.trace.samples) < MaxSamples
  /\ monitor' = [monitor EXCEPT !.profiler.profiler.trace.samples =
                                    Append(@, [timestamp |-> env.now,
                                               stackId |-> Len(@) % 2])]
  /\ UNCHANGED <<gen, markedFunctions, call, ret, pc, env, app>>

Start ==
  /\ pc = "idle"
  /\ monitor' = startBegins(monitor, env)
  /\ call' = [op |-> "start", added |-> NoneAdded, trace |-> Null]
  /\ ret' = NoReturn
  /\ pc' = "starting"
  /\ UNCHANGED <<gen, markedFunctions, env, app>>

StartResumes ==
  /\ pc = "starting"
  /\ monitor' = startResumes(monitor, env)
  /\ call' = [call EXCEPT !.op = "start"]
  /\ ret' = Undefined
  /\ pc' = "collecting"
  /\ UNCHANGED <<gen, markedFunctions, env, app>>

Stop ==
  /\ pc = "collecting"
  /\ monitor' = stop(monitor)
  /\ call' = [call EXCEPT !.op = "stop",
                          !.trace = IF profilerStop(monitor.profiler).ret # Null
                                    THEN profilerStop(monitor.profiler).ret ELSE @]
  /\ ret' = Undefined
  /\ pc' = "stopped"
  /\ UNCHANGED <<gen, markedFunctions, env, app>>

AddWorkerPerformanceData ==
  /\ MayAdd
  /\ \E data \in WorkerRecords :
       /\ monitor' = monitorAddWorkerPerformanceData(monitor, data)
       /\ call' = [call EXCEPT !.op = "addWorkerPerformanceData",
                               !.added.worker = Append(@, data)]
  /\ ret' = Undefined
  /\ UNCHANGED <<gen, markedFunctions, pc, env, app>>

AddMainThreadInstrumentationData ==
  /\ MayAdd
  /\ \E data \in MainThreadRecords :
       /\ monitor' = addMainThreadInstrumentationData(monitor, data)
       /\ call' = [call EXCEPT !.op = "addMainThreadInstrumentationData",
                               !.added.main = Append(@, data)]
  /\ ret' = Undefined
  /\ UNCHANGED <<gen, markedFunctions, pc, env, app>>

Clear ==
  /\ pc # "starting"
  /\ monitor' = clear(monitor)
  /\ call' = [call EXCEPT !.op = "clear", !.added = NoneAdded]
  /\ ret' = Undefined
  /\ UNCHANGED <<gen, markedFunctions, pc, env, app>>

\* What a generate* method leaves behind: the monitor, the generator, the result,
\* and the trace if this call is the one that stopped the Profiler.
Generated(op, r) ==
  /\ \E done \in {r} :
       /\ monitor' = done.m
       /\ gen' = done.g
       /\ ret' = done.ret
  /\ call' = [call EXCEPT !.op = op,
                          !.trace = IF profilerStop(monitor.profiler).ret # Null
                                    THEN profilerStop(monitor.profiler).ret ELSE @]
  /\ UNCHANGED <<markedFunctions, pc, env, app>>

GenerateProfile ==
  /\ pc \in GenerateSteps
  /\ Generated("generateProfile", generateProfile(monitor, gen, markedFunctions, env.now))

GenerateSpeedscopeProfile ==
  /\ pc \in GenerateSteps
  /\ Generated("generateSpeedscopeProfile",
               generateSpeedscopeProfile(monitor, gen, markedFunctions, env.now))

MonitorNext ==
  \/ Tick
  \/ Sample
  \/ Start
  \/ StartResumes
  \/ Stop
  \/ AddWorkerPerformanceData
  \/ AddMainThreadInstrumentationData
  \/ Clear
  \/ GenerateProfile
  \/ GenerateSpeedscopeProfile

MonitorSpec == MonitorInit /\ [][MonitorNext]_vars

(***************************************************************************)
(* The state machine of a MainThreadProfiler by itself, in each kind of    *)
(* browser: start() and stop() in any order, the clock and the sampling    *)
(* between them.  call.was is the profiler as the last call found it.      *)
(***************************************************************************)
ProfilingKinds == {"ok", "unsupported", "disallowed", "throws", "rejects"}

ProfilerInit ==
  /\ pc = "profiling"
  /\ monitor = NewMonitor(DefaultConfig)
  /\ \E kind \in ProfilingKinds : env = [QuietEnv EXCEPT !.profiling = kind]
  /\ gen = FreshGen
  /\ markedFunctions = EmptyMap
  /\ call = [op |-> "new", was |-> NewMonitor(DefaultConfig).profiler, trace |-> Null]
  /\ ret = NoReturn
  /\ app = IdleApp

ProfilerStart ==
  /\ pc = "profiling"
  /\ \E r \in {profilerStart(monitor.profiler, env)} :
       /\ monitor' = [monitor EXCEPT !.profiler = r.p]
       /\ ret' = [returned |-> r.ret]
  /\ call' = [call EXCEPT !.op = "start", !.was = monitor.profiler]
  /\ UNCHANGED <<gen, markedFunctions, pc, env, app>>

ProfilerStop ==
  /\ pc = "profiling"
  /\ \E r \in {profilerStop(monitor.profiler), profilerStopFails(monitor.profiler)} :
       /\ monitor' = [monitor EXCEPT !.profiler = r.p]
       /\ ret' = r.ret
       /\ call' = [call EXCEPT !.op = "stop", !.was = monitor.profiler,
                               !.trace = IF r.ret # Null THEN r.ret ELSE @]
  /\ UNCHANGED <<gen, markedFunctions, pc, env, app>>

ProfilerNext ==
  \/ Tick
  \/ Sample
  \/ ProfilerStart
  \/ ProfilerStop

ProfilerSpec == ProfilerInit /\ [][ProfilerNext]_vars

(***************************************************************************)
(* The records kept by a WorkerProfiler or a MainThreadInstrumentation.    *)
(* A WorkerProfiler with IndexedDB has a storage whose database opens      *)
(* asynchronously; store is what the database holds for this worker, and   *)
(* requests are the transactions asked of it, which the database serves in *)
(* the order they were made once it is open.  A MainThreadInstrumentation  *)
(* has the array alone.                                                    *)
(***************************************************************************)
Open == [open |-> TRUE]

NewWorkerProfiler(workerId, useIndexedDB) ==
  [workerId |-> workerId, performanceData |-> <<>>,
   storage |-> IF useIndexedDB THEN [db |-> Null] ELSE Null,
   store |-> <<>>, requests |-> <<>>]

NewMainThreadInstrumentation == NewWorkerProfiler("web-main", FALSE)

\* record(), and the function returned by startFunction(): the record is pushed
\* on the array and, with a storage, its save is started and not awaited.
record(p, functionName, startTime, endTime) ==
  LET perfData == Record(p.workerId, functionName, startTime, endTime) IN
  [p EXCEPT !.performanceData = Append(@, perfData),
            !.requests = IF p.storage # Null
                         THEN Append(@, [op |-> "save", data |-> perfData])
                         ELSE @]

\* clear(): WorkerProfilerStorage.clear() returns at once while the database is
\* not open.
profilerClear(p) ==
  [p EXCEPT !.performanceData = <<>>,
            !.requests = IF p.storage # Null /\ p.storage.db # Null
                         THEN Append(@, [op |-> "clear"])
                         ELSE @]

clearReturnsAtOnce(p) == IF p.storage = Null THEN TRUE ELSE p.storage.db = Null

\* What getAllPerformanceData() returns once getAllData() has answered, or failed.
getAllPerformanceData(p, answered) ==
  IF p.storage # Null /\ answered /\ Len(p.store) > 0 THEN p.store
  ELSE p.performanceData

FreshTelemetryCall ==
  [op |-> "new", made |-> 0, last |-> Undefined, prev |-> Undefined,
   cleared |-> "no", afterClear |-> FALSE, quiet |-> FALSE]

TelemetryInit ==
  /\ pc = "telemetry"
  /\ app \in {NewMainThreadInstrumentation, NewWorkerProfiler("worker-0", FALSE),
              NewWorkerProfiler("worker-0", TRUE)}
  /\ call = FreshTelemetryCall
  /\ ret = NoReturn
  /\ gen = FreshGen
  /\ markedFunctions = EmptyMap
  /\ monitor = NewMonitor(DefaultConfig)
  /\ env = QuietEnv

RecordMade ==
  /\ pc \in {"telemetry", "getting"}
  /\ call.made < MaxRecords
  /\ \E functionName \in FunctionNames :
       app' = record(app, functionName, call.made, call.made + 1)
  /\ call' = [call EXCEPT !.made = @ + 1, !.last = Undefined, !.prev = Undefined,
                          !.cleared = "no", !.afterClear = FALSE, !.quiet = FALSE]
  /\ UNCHANGED <<gen, markedFunctions, ret, pc, monitor, env>>

DatabaseOpens ==
  /\ pc \in {"telemetry", "getting"}
  /\ app.storage # Null
  /\ app.storage.db = Null
  /\ app' = [app EXCEPT !.storage.db = Open]
  /\ UNCHANGED <<gen, markedFunctions, call, ret, pc, monitor, env>>

\* init() rejects: the profiler falls back to its array, the saves waiting for the
\* database are rejected and logged.
DatabaseFailsToOpen ==
  /\ pc \in {"telemetry", "getting"}
  /\ app.storage # Null
  /\ app.storage.db = Null
  /\ app' = [app EXCEPT !.storage = Null,
                        !.requests = SelectSeq(@, LAMBDA request : request.op = "getAll")]
  /\ UNCHANGED <<gen, markedFunctions, call, ret, pc, monitor, env>>

GetAllBegins ==
  /\ pc = "telemetry"
  /\ IF app.storage = Null
     THEN /\ ret' = [records |-> getAllPerformanceData(app, FALSE)]
          /\ call' = [call EXCEPT !.op = "getAllPerformanceData",
                                  !.afterClear = (call.cleared = "yes"),
                                  !.quiet = TRUE, !.prev = call.last, !.last = ret']
          /\ UNCHANGED <<app, pc>>
     ELSE /\ app' = [app EXCEPT !.requests = Append(@, [op |-> "getAll"])]
          /\ call' = [call EXCEPT !.op = "getAllPerformanceData", !.quiet = TRUE,
                                  !.afterClear = (call.cleared = "yes")]
          /\ pc' = "getting"
          /\ ret' = NoReturn
  /\ UNCHANGED <<gen, markedFunctions, monitor, env>>

\* clear(), one at a time: the caller awaits it before the next clear().
ProfilerClear ==
  /\ pc \in {"telemetry", "getting"}
  /\ \A i \in DOMAIN app.requests : app.requests[i].op # "clear"
  /\ app' = profilerClear(app)
  /\ call' = [call EXCEPT !.last = Undefined, !.prev = Undefined, !.afterClear = FALSE,
                          !.quiet = FALSE,
                          !.cleared = IF clearReturnsAtOnce(app) THEN "yes" ELSE "pending"]
  /\ UNCHANGED <<gen, markedFunctions, ret, pc, monitor, env>>

\* The database serves, or fails, the oldest transaction asked of it.
DatabaseServes ==
  /\ pc \in {"telemetry", "getting"}
  /\ app.requests # <<>>
  /\ IF app.storage = Null THEN TRUE ELSE app.storage.db # Null
  /\ \E request \in {Head(app.requests)}, succeeds \in BOOLEAN :
       CASE request.op = "save" ->
              /\ app' = [app EXCEPT !.requests = Tail(@),
                                    !.store = IF succeeds THEN Append(@, request.data) ELSE @]
              /\ UNCHANGED <<call, ret, pc>>
         [] request.op = "clear" ->
              /\ app' = [app EXCEPT !.requests = Tail(@),
                                    !.store = IF succeeds THEN <<>> ELSE @]
              /\ call' = [call EXCEPT !.cleared = IF @ = "pending" /\ succeeds
                                                  THEN "yes" ELSE IF @ = "pending" THEN "no" ELSE @]
              /\ UNCHANGED <<ret, pc>>
         [] request.op = "getAll" ->
              /\ app' = [app EXCEPT !.requests = Tail(@)]
              /\ ret' = [records |-> getAllPerformanceData(app, succeeds)]
              /\ call' = [call EXCEPT !.prev = call.last,
                                      !.last = IF call.quiet THEN ret' ELSE Undefined]
              /\ pc' = "telemetry"
  /\ UNCHANGED <<gen, markedFunctions, monitor, env>>

TelemetryNext ==
  \/ RecordMade
  \/ DatabaseOpens
  \/ DatabaseFailsToOpen
  \/ GetAllBegins
  \/ ProfilerClear
  \/ DatabaseServes

TelemetrySpec == TelemetryInit /\ [][TelemetryNext]_vars

(***************************************************************************)
(* function-marker: the registry markedFunctions and its functions.  The   *)
(* application marks functions, clears the registry, looks markers up, and *)
(* takes a copy of the registry (app.copy) which it then changes.          *)
(***************************************************************************)
getDefaultColor(category) ==
  CASE category = "network" -> "#ff6b6b"
    [] category = "render" -> "#4ecdc4"
    [] category = "compute" -> "#ffe66d"
    [] category = "custom" -> "#95e1d3"

markerOf(name, options) ==
  LET category == IF Has(options, "category") /\ options.category # ""
                  THEN options.category ELSE "custom"
      described == IF Has(options, "description")
                   THEN [description |-> options.description] ELSE EmptyMap
  IN  [functionName |-> name,
       category |-> category,
       color |-> IF Has(options, "color") /\ options.color # ""
                 THEN options.color ELSE getDefaultColor(category)] @@ described

markFunctionKeepsFirst(mf, name, options) ==
  IF name \in DOMAIN mf THEN mf
  ELSE [n \in DOMAIN mf \cup {name} |-> IF n = name THEN markerOf(name, options) ELSE mf[n]]

\* Map.set: a marker already set for the name is replaced.
markFunction(mf, name, options) ==
  [n \in DOMAIN mf \cup {name} |-> IF n = name THEN markerOf(name, options) ELSE mf[n]]

getAllMarkedFunctions(mf) == [n \in DOMAIN mf |-> mf[n]]

clearAllMarkers(mf) == EmptyMap

MarkerOptions ==
  {[category |-> "network"],
   [category |-> "custom", color |-> "#000000"],
   [category |-> "", color |-> ""],
   [category |-> "compute", description |-> "hot path"]}

MarkerInit ==
  /\ pc = "marking"
  /\ markedFunctions = EmptyMap
  /\ app = [copy |-> Undefined]
  /\ call = [op |-> "new", name |-> "", marked |-> EmptyMap]
  /\ ret = NoReturn
  /\ gen = FreshGen
  /\ monitor = NewMonitor(DefaultConfig)
  /\ env = QuietEnv

\* call.marked keeps, for each name, the options of its last markFunction since the
\* last clearAllMarkers.
MarkFunction ==
  /\ pc = "marking"
  /\ \E name \in FunctionNames, options \in MarkerOptions :
       /\ markedFunctions' = markFunction(markedFunctions, name, options)
       /\ call' = [op |-> "markFunction", name |-> name,
                   marked |-> [n \in DOMAIN call.marked \cup {name} |->
                                 IF n = name THEN options ELSE call.marked[n]]]
  /\ UNCHANGED <<gen, ret, pc, monitor, env, app>>

ClearAllMarkers ==
  /\ pc = "marking"
  /\ markedFunctions' = clearAllMarkers(markedFunctions)
  /\ call' = [op |-> "clearAllMarkers", name |-> "", marked |-> EmptyMap]
  /\ UNCHANGED <<gen, ret, pc, monitor, env, app>>

GetFunctionMarker ==
  /\ pc = "marking"
  /\ \E name \in FunctionNames :
       /\ ret' = getFunctionMarker(markedFunctions, name)
       /\ call' = [call EXCEPT !.op = "getFunctionMarker", !.name = name]
  /\ UNCHANGED <<gen, markedFunctions, pc, monitor, env, app>>

GetAllMarkedFunctions ==
  /\ pc = "marking"
  /\ app' = [copy |-> getAllMarkedFunctions(markedFunctions)]
  /\ call' = [call EXCEPT !.op = "getAllMarkedFunctions", !.name = ""]
  /\ UNCHANGED <<gen, markedFunctions, ret, pc, monitor, env>>

\* The application sets, deletes or clears entries of the map it was returned.
CopyChanged ==
  /\ pc = "marking"
  /\ app.copy # Undefined
  /\ \E name \in FunctionNames :
       \/ app' = [copy |-> markFunction(app.copy, name, [category |-> "render"])]
       \/ app' = [copy |-> [n \in DOMAIN app.copy \ {name} |-> app.copy[n]]]
       \/ app' = [copy |-> EmptyMap]
  /\ call' = [call EXCEPT !.op = "changeCopy", !.name = ""]
  /\ UNCHANGED <<gen, markedFunctions, ret, pc, monitor, env>>

MarkerNext ==
  \/ MarkFunction
  \/ ClearAllMarkers
  \/ GetFunctionMarker
  \/ GetAllMarkedFunctions
  \/ CopyChanged

MarkerSpec == MarkerInit /\ [][MarkerNext]_vars

(***************************************************************************)
(* instrument-decorator: functions wrapped by @instrument(name) or by      *)
(* instrumentFunction(name, fn), called in a worker before and after       *)
(* setWorkerProfiler.  What the wrapped function does is the outcome of    *)
(* the call: it returns a value, throws, or returns a promise, which       *)
(* settles later; app.pending are the promises not yet settled, each with  *)
(* what startFunction kept for it.                                         *)
(***************************************************************************)
finalFunctionName(functionName, className, propertyKey) ==
  IF functionName # "" THEN functionName ELSE className \o "." \o propertyKey

startFunction(p, functionName, now) ==
  [p |-> [p EXCEPT !.callStack = Append(@, functionName)],
   started |-> [functionName |-> functionName, startTime |-> now]]

endFunctionForgets(p, started, now) ==
  [p EXCEPT !.callStack = SubSeq(@, 1, Len(@) - 1)]

\* The function startFunction returns: it pops the call stack and pushes the record.
endFunction(p, started, now) ==
  LET callStack == SubSeq(p.callStack, 1, Len(p.callStack) - 1) IN
  [p EXCEPT !.callStack = callStack,
            !.performanceData =
               Append(@, Record(p.workerId, started.functionName, started.startTime, now)
                           @@ [callStack |-> callStack])]

NotInitialized == RaisedError("WorkerProfiler not initialized")

\* The wrapper: [instance, ret, pending], pending being what a returned promise
\* waits with.
instrumentFunction(instance, functionName, outcome, now) ==
  IF instance = Null
  THEN [instance |-> instance, ret |-> NotInitialized, pending |-> <<>>]
  ELSE LET s == startFunction(instance, functionName, now) IN
       CASE outcome.kind = "promise" ->
              [instance |-> s.p, ret |-> [promise |-> outcome.value],
               pending |-> <<s.started>>]
         [] outcome.kind = "returns" ->
              [instance |-> endFunction(s.p, s.started, now),
               ret |-> [value |-> outcome.value], pending |-> <<>>]
         [] outcome.kind = "throws" ->
              [instance |-> endFunction(s.p, s.started, now),
               ret |-> RaisedError(outcome.value), pending |-> <<>>]

\* result.finally(() => endFunction()): the promise settles as result did.
finally(settlement) == settlement

Outcomes == {[kind |-> k, value |-> v] : k \in {"returns", "throws", "promise"},
                                         v \in {"a", "b"}}

Settlements == {[kind |-> k, value |-> v] : k \in {"resolved", "rejected"}, v \in {"a", "b"}}

Without(s, i) == [j \in 1..(Len(s) - 1) |-> IF j < i THEN s[j] ELSE s[j + 1]]

InstrumentInit ==
  /\ pc = "instrumented"
  /\ app = [workerProfilerInstance |-> Null, pending |-> <<>>]
  /\ call = [op |-> "new", invoked |-> 0, finished |-> 0, refused |-> 0,
             initialized |-> FALSE, outcome |-> Null]
  /\ ret = NoReturn
  /\ gen = FreshGen
  /\ markedFunctions = EmptyMap
  /\ monitor = NewMonitor(DefaultConfig)
  /\ env = QuietEnv

SetWorkerProfiler ==
  /\ pc = "instrumented"
  /\ app.workerProfilerInstance = Null
  /\ app' = [app EXCEPT !.workerProfilerInstance =
                           NewWorkerProfiler("worker-0", FALSE) @@ [callStack |-> <<>>]]
  /\ call' = [call EXCEPT !.op = "setWorkerProfiler"]
  /\ UNCHANGED <<gen, markedFunctions, ret, pc, monitor, env>>

\* A wrapped function is called: call.invoked counts the calls, call.finished those
\* that have returned, thrown or whose promise has settled, call.refused those made
\* before setWorkerProfiler.
Invoke ==
  /\ pc = "instrumented"
  /\ call.invoked < MaxRecords
  /\ \E outcome \in Outcomes, functionName \in {"f", ""} :
       \E r \in {instrumentFunction(app.workerProfilerInstance,
                                    finalFunctionName(functionName, "ImageProcessor", "g"),
                                    outcome, env.now)} :
         /\ app' = [workerProfilerInstance |-> r.instance,
                    pending |-> app.pending \o r.pending]
         /\ ret' = r.ret
         /\ call' = [op |-> "invoke", invoked |-> call.invoked + 1,
                     finished |-> call.finished + (IF r.pending = <<>> THEN 1 ELSE 0),
                     refused |-> call.refused
                                   + (IF app.workerProfilerInstance = Null THEN 1 ELSE 0),
                     initialized |-> app.workerProfilerInstance # Null,
                     outcome |-> outcome]
  /\ UNCHANGED <<gen, markedFunctions, pc, monitor, env>>

\* The promise a wrapped function returned settles.
Settle ==
  /\ pc = "instrumented"
  /\ \E i \in DOMAIN app.pending, settlement \in Settlements :
       /\ app' = [workerProfilerInstance |->
                    endFunction(app.workerProfilerInstance, app.pending[i], env.now),
                  pending |-> Without(app.pending, i)]
       /\ ret' = finally(settlement)
       /\ call' = [call EXCEPT !.op = "settle", !.finished = @ + 1,
                               !.initialized = TRUE, !.outcome = settlement]
  /\ UNCHANGED <<gen, markedFunctions, pc, monitor, env>>

InstrumentNext ==
  \/ Tick
  \/ SetWorkerProfiler
  \/ Invoke
  \/ Settle

InstrumentSpec == InstrumentInit /\ [][InstrumentNext]_vars

(***************************************************************************)
(* inject-controls: the start-record and stop-record handlers of the       *)
(* injected controls, with the callbacks of createPerformanceCallbacks.    *)
(* app.isRecording is the handlers' flag; app.starting and app.stopping    *)
(* are where a handler that has been entered is waiting; app.isDev is      *)
(* import.meta.env.DEV.                                                    *)
(***************************************************************************)
\* What generateIndividualSpeedscopeProfiles does to the monitor's parts: it stops
\* the profiler for its trace, and nothing else.
individualProfilesStop(m) == [m EXCEPT !.profiler = profilerStop(@).p]

ControlsInit ==
  /\ pc = "controls"
  /\ \E setup \in Setups, isDev \in BOOLEAN :
       /\ monitor = NewMonitor(setup.config)
       /\ env = setup.env
       /\ app = [isRecording |-> FALSE, starting |-> "no", stopping |-> "no",
                 isDev |-> isDev]
  /\ gen = FreshGen
  /\ markedFunctions = EmptyMap
  /\ call = [op |-> "new", trace |-> Null]
  /\ ret = NoReturn

\* start-record: the flag is set, onStart() calls monitor.start(), which runs up to
\* its await.
StartRecord ==
  /\ pc = "controls"
  /\ ~app.isRecording
  /\ app.starting = "no"
  /\ app' = [app EXCEPT !.isRecording = TRUE, !.starting = "awaiting onStart"]
  /\ monitor' = startBegins(monitor, env)
  /\ call' = [call EXCEPT !.op = "start-record"]
  /\ UNCHANGED <<gen, markedFunctions, ret, pc, env>>

\* monitor.start() goes on after its await, and the start-record handler ends.
StartRecordEnds ==
  /\ pc = "controls"
  /\ app.starting = "awaiting onStart"
  /\ app' = [app EXCEPT !.starting = "no"]
  /\ monitor' = startResumes(monitor, env)
  /\ call' = [call EXCEPT !.op = "start-record"]
  /\ UNCHANGED <<gen, markedFunctions, ret, pc, env>>

\* stop-record: the flag is cleared; in development the individual profiles are asked
\* for first, otherwise onStop() is called.
StopRecord ==
  /\ pc = "controls"
  /\ app.isRecording
  /\ app.stopping = "no"
  /\ IF app.isDev
     THEN /\ app' = [app EXCEPT !.isRecording = FALSE,
                                !.stopping = "awaiting onGenerateIndividualProfiles"]
          /\ monitor' = individualProfilesStop(monitor)
     ELSE /\ app' = [app EXCEPT !.isRecording = FALSE, !.stopping = "awaiting onStop"]
          /\ monitor' = stop(monitor)
  /\ call' = [call EXCEPT !.op = "stop-record"]
  /\ UNCHANGED <<gen, markedFunctions, ret, pc, env>>

\* The individual profiles are returned, never empty, and the viewer is asked to
\* open, which ends the handler; or generating them raised, and onStop() is called.
IndividualProfilesReturn ==
  /\ pc = "controls"
  /\ app.stopping = "awaiting onGenerateIndividualProfiles"
  /\ \E raised \in BOOLEAN :
       IF raised
       THEN /\ app' = [app EXCEPT !.stopping = "awaiting onStop"]
            /\ monitor' = stop(monitor)
       ELSE /\ app' = [app EXCEPT !.stopping = "no"]
            /\ UNCHANGED monitor
  /\ call' = [call EXCEPT !.op = "stop-record"]
  /\ UNCHANGED <<gen, markedFunctions, ret, pc, env>>

\* onStop() returns its profile and the stop-record handler ends.
StopRecordEnds ==
  /\ pc = "controls"
  /\ app.stopping = "awaiting onStop"
  /\ app' = [app EXCEPT !.stopping = "no"]
  /\ call' = [call EXCEPT !.op = "stop-record"]
  /\ UNCHANGED <<gen, markedFunctions, ret, pc, monitor, env>>

ControlsNext ==
  \/ Tick
  \/ Sample
  \/ StartRecord
  \/ StartRecordEnds
  \/ StopRecord
  \/ IndividualProfilesReturn
  \/ StopRecordEnds

ControlsSpec == ControlsInit /\ [][ControlsNext]_vars

(***************************************************************************)
(* One CPUProfileGenerator used for several calls.  A Profile a build      *)
(* returns holds the generator's own nodes, samples and timeDeltas arrays, *)
(* not copies.  app.arrays names the arrays the generator holds now (a new *)
(* name for each allocation; 0 names arrays the generator does not hold);  *)
(* app.held is the first Profile returned: as it was returned (profile),   *)
(* the arrays it holds (arrays) and what it reads as now (now).            *)
(***************************************************************************)
MaxCalls == 3

resetKeepsArrays(arrays) == arrays

\* reset() assigns new arrays to nodes, samples and timeDeltas.
resetAllocates(arrays) == arrays + 1

\* What a held Profile reads as after a call that left the generator as g, holding
\* the arrays named arrays.
heldAfter(held, arrays, g) ==
  IF held = Null THEN Null
  ELSE IF held.arrays = arrays
       THEN [held EXCEPT !.now = [@ EXCEPT !.nodes = g.nodes, !.samples = g.samples,
                                           !.timeDeltas = g.timeDeltas]]
       ELSE held

ReuseTraces ==
  {Null} \cup
  {[frames |-> <<FrameAtZero, FrameOfG>>, stacks |-> TraceStacks, samples |-> ss] :
     ss \in {<<[timestamp |-> 0, stackId |-> 0]>>,
             <<[timestamp |-> 1, stackId |-> 1], [timestamp |-> 2, stackId |-> 0]>>}}

ReuseRecords ==
  {<<Record("worker-0", "f", 0, 1)>>,
   <<Record("worker-0", "f", 0, 1), Record("worker-0", "f", 1, 2)>>,
   <<Record("worker-0", "g", 1, 2)>>}

ReuseInit ==
  /\ pc = "reuse"
  /\ gen = FreshGen
  /\ app = [arrays |-> 1, held |-> Null]
  /\ call = [op |-> "new", calls |-> 0]
  /\ ret = NoReturn
  /\ markedFunctions = EmptyMap
  /\ monitor = NewMonitor(DefaultConfig)
  /\ env = QuietEnv

\* A build has returned r = [g, ret]; own tells whether ret holds the generator's
\* arrays (a Profile of a usable trace or of records) or arrays of its own (the
\* empty Profile).
Built(op, r, own) ==
  /\ gen' = r.g
  /\ ret' = r.ret
  /\ \E arrays \in {resetAllocates(app.arrays)} :
       app' = [arrays |-> arrays,
               held |-> IF app.held # Null THEN heldAfter(app.held, arrays, r.g)
                        ELSE IF IsError(r.ret) THEN Null
                        ELSE [profile |-> r.ret, now |-> r.ret,
                              arrays |-> IF own THEN 0 ELSE arrays]]
  /\ call' = [op |-> op, calls |-> call.calls + 1]
  /\ UNCHANGED <<markedFunctions, pc, monitor, env>>

ReuseGenerateFromTrace ==
  /\ pc = "reuse"
  /\ call.calls < MaxCalls
  /\ \E trace \in ReuseTraces :
       Built("generateFromTrace",
             generateFromTrace(gen, markedFunctions, trace, 0, 3, "Main Thread"),
             trace = Null)

ReuseGenerateFromSingleWorkerData ==
  /\ pc = "reuse"
  /\ call.calls < MaxCalls
  /\ \E workerData \in ReuseRecords :
       Built("generateFromSingleWorkerData",
             generateFromSingleWorkerData(gen, workerData, 0, 3, "worker-0"), FALSE)

\* mergeProfiles reads its inputs and builds the merged Profile in arrays of its
\* own; it leaves the generator as it is.
ReuseMergeProfiles ==
  /\ pc = "reuse"
  /\ call.calls < MaxCalls
  /\ \E other \in {SampledMain, getEmptyProfile(1, 1)} :
       \E merged \in {mergeProfiles(IF app.held = Null THEN <<other, SampledMain>>
                                    ELSE <<app.held.now, other>>)} :
         /\ ret' = merged
         /\ app' = [app EXCEPT !.held = IF @ = Null
                                        THEN [profile |-> merged, now |-> merged, arrays |-> 0]
                                        ELSE @]
  /\ call' = [op |-> "mergeProfiles", calls |-> call.calls + 1]
  /\ UNCHANGED <<gen, markedFunctions, pc, monitor, env>>

\* generateSpeedscopeFormat reads the Profile it is given and leaves the generator
\* as it is.
ReuseGenerateSpeedscopeFormat ==
  /\ pc = "reuse"
  /\ call.calls < MaxCalls
  /\ app.held # Null
  /\ \E exported \in {generateSpeedscopeFormat(app.held.now, <<>>, Undefined, 0)} :
       ret' = exported
  /\ call' = [op |-> "generateSpeedscopeFormat", calls |-> call.calls + 1]
  /\ UNCHANGED <<gen, markedFunctions, pc, monitor, env, app>>

ReuseNext ==
  \/ ReuseGenerateFromTrace
  \/ ReuseGenerateFromSingleWorkerData
  \/ ReuseMergeProfiles
  \/ ReuseGenerateSpeedscopeFormat

ReuseSpec == ReuseInit /\ [][ReuseNext]_vars

(***************************************************************************)
(* The page (App.vue) retrieving the workers' records before it stops the  *)
(* monitor.  app.workers[w] is what the page and worker w hold of each     *)
(* other: wait, the promise of the page's wait for w; timeout, its 5 s     *)
(* timer; listening, whether the one-time handler is registered; request,  *)
(* whether GET_PERF_DATA is still to be taken by the worker; inbox, the    *)
(* messages the worker has posted that the page has not yet handled.       *)
(***************************************************************************)
MaxWorkers == 2     \* workers of the page

workerIdOf(w) == "worker-" \o ToString(w - 1)

NewWorker ==
  [wait |-> "none", timeout |-> "none", listening |-> FALSE, request |-> "none",
   inbox |-> <<>>]

\* What a worker may answer to GET_PERF_DATA: its records, or an error.
Answers(w) ==
  {[type |-> "PERF_DATA_RESPONSE", perfData |-> <<>>],
   [type |-> "PERF_DATA_RESPONSE", perfData |-> <<Record(workerIdOf(w), "f", 0, 1)>>],
   [type |-> "PERF_DATA_ERROR"]}

\* What mainThreadInstrumentation.getAllPerformanceData() may return.
MainThreadPerfData == {<<>>, <<Record("web-main", "f", 2, 2)>>}

RECURSIVE addEach(_, _)
addEach(m, perfData) ==
  IF perfData = <<>> THEN m
  ELSE addEach(monitorAddWorkerPerformanceData(m, Head(perfData)), Tail(perfData))

\* worker.onmessage, for the two messages about records.
onmessage(m, msg) ==
  IF msg.type = "PERF_DATA_RESPONSE" THEN addEach(m, msg.perfData) ELSE m

\* The one-time handler of the wait: [m, worker].
handler(m, worker, msg) ==
  LET done == [worker EXCEPT !.timeout = IF @ = "armed" THEN "cleared" ELSE @,
                             !.listening = FALSE,
                             !.wait = "resolved"]
  IN IF msg.type = "PERF_DATA_RESPONSE"
     THEN [m |-> addEach(m, msg.perfData), worker |-> done]
     ELSE IF msg.type = "PERF_DATA_ERROR" THEN [m |-> m, worker |-> done]
     ELSE [m |-> m, worker |-> worker]

onTimeoutOnlyWarns(worker) == [worker EXCEPT !.timeout = "fired"]

\* The 5 s timer of a wait fires: a warning, and the wait is over.
onTimeout(worker) == [worker EXCEPT !.timeout = "fired", !.wait = "resolved"]

\* The page asks a worker: the timer, the handler, the request.
askWorker(worker) ==
  [worker EXCEPT !.wait = "pending", !.timeout = "armed", !.listening = TRUE,
                 !.request = "sent"]

RetrievalInit ==
  /\ pc = "collecting"
  /\ \E setup \in Setups :
       /\ monitor = startResumes(startBegins(NewMonitor(setup.config), setup.env), setup.env)
       /\ env = setup.env
  /\ gen = FreshGen
  /\ markedFunctions = EmptyMap
  /\ call = [op |-> "start", added |-> NoneAdded, trace |-> Null]
  /\ ret = Undefined
  /\ \E n \in 1..MaxWorkers : app = [phase |-> "loaded", workers |-> [w \in 1..n |-> NewWorker]]

\* The images are loaded and the second of grace is over: every worker is asked.
RetrievalStarts ==
  /\ app.phase = "loaded"
  /\ app' = [phase |-> "retrieving",
             workers |-> [w \in DOMAIN app.workers |-> askWorker(app.workers[w])]]
  /\ UNCHANGED <<gen, markedFunctions, call, ret, pc, monitor, env>>

\* A worker takes GET_PERF_DATA and posts its answer.  A worker may never do so.
WorkerAnswers(w) ==
  /\ app.workers[w].request = "sent"
  /\ \E msg \in Answers(w) :
       app' = [app EXCEPT !.workers[w].request = "taken",
                          !.workers[w].inbox = Append(@, msg)]
  /\ UNCHANGED <<gen, markedFunctions, call, ret, pc, monitor, env>>

\* The page handles a message of a worker: worker.onmessage, then the one-time
\* handler if it is still registered.
MainReceives(w) ==
  /\ app.workers[w].inbox # <<>>
  /\ LET msg == Head(app.workers[w].inbox)
         m1 == onmessage(monitor, msg)
         taken == [app.workers[w] EXCEPT !.inbox = Tail(@)]
         r == IF taken.listening THEN handler(m1, taken, msg)
              ELSE [m |-> m1, worker |-> taken]
     IN /\ monitor' = r.m
        /\ app' = [app EXCEPT !.workers[w] = r.worker]
  /\ UNCHANGED <<gen, markedFunctions, call, ret, pc, env>>

Timeout(w) ==
  /\ app.workers[w].timeout = "armed"
  /\ app' = [app EXCEPT !.workers[w] = onTimeout(@)]
  /\ UNCHANGED <<gen, markedFunctions, call, ret, pc, monitor, env>>

\* Every wait is over: the main thread's records are added and stop() is called.
Collect ==
  /\ app.phase = "retrieving"
  /\ \A w \in DOMAIN app.workers : app.workers[w].wait = "resolved"
  /\ \E mainThreadPerfData \in MainThreadPerfData :
       monitor' = stop(IF Len(mainThreadPerfData) > 0
                       THEN addMainThreadInstrumentationDataBatch(monitor, mainThreadPerfData)
                       ELSE monitor)
  /\ app' = [app EXCEPT !.phase = "stopping"]
  /\ call' = [call EXCEPT !.op = "stop"]
  /\ pc' = "stopped"
  /\ UNCHANGED <<gen, markedFunctions, ret, env>>

\* stop() has returned: the page is no longer loading.
StopReturns ==
  /\ app.phase = "stopping"
  /\ app' = [app EXCEPT !.phase = "stopped"]
  /\ UNCHANGED <<gen, markedFunctions, call, ret, pc, monitor, env>>

RetrievalNext ==
  \/ RetrievalStarts
  \/ \E w \in DOMAIN app.workers : WorkerAnswers(w)
  \/ \E w \in DOMAIN app.workers : MainReceives(w)
  \/ \E w \in DOMAIN app.workers : Timeout(w)
  \/ Collect
  \/ StopReturns

\* The browser's event loop runs every task that is due: a posted message is
\* handled, an armed timer fires, a promise that is settled is continued.  Nothing
\* makes a worker answer.
RetrievalFairness ==
  /\ \A w \in 1..MaxWorkers : WF_vars(w \in DOMAIN app.workers /\ MainReceives(w))
  /\ \A w \in 1..MaxWorkers : WF_vars(w \in DOMAIN app.workers /\ Timeout(w))
  /\ WF_vars(Collect)
  /\ WF_vars(StopReturns)

RetrievalSpec == RetrievalInit /\ [][RetrievalNext]_vars /\ RetrievalFairness

(***************************************************************************)
(* Properties.                                                             *)
(***************************************************************************)
NonDecreasing(s) == \A i \in 1..(Len(s) - 1) : s[i] <= s[i + 1]

StrictlyIncreasing(s) == \A i \in 1..(Len(s) - 1) : s[i] < s[i + 1]

NodeIds(profile) == {profile.nodes[k].id : k \in DOMAIN profile.nodes}

DistinctNodeIds(profile) ==
  \A k, l \in DOMAIN profile.nodes : profile.nodes[k].id = profile.nodes[l].id => k = l

NodeWithId(profile, id) ==
  profile.nodes[CHOOSE k \in DOMAIN profile.nodes : profile.nodes[k].id = id]

\* The samples of a trace that name a frame, and the frame each names.
NamesFrame(trace, sample) ==
  /\ Has(sample, "stackId")
  /\ (sample.stackId + 1) \in DOMAIN trace.stacks
  /\ Has(trace.stacks[sample.stackId + 1], "frameId")

KeptSamples(trace) == SelectSeq(trace.samples, LAMBDA sample : NamesFrame(trace, sample))

SampleFrame(trace, sample) == trace.frames[trace.stacks[sample.stackId + 1].frameId + 1]

\* The identity key of a trace frame: context, function name, file, line, column.
IdentityKey(frame, threadName) ==
  [context |-> threadName,
   functionName |-> IF Has(frame, "name") /\ frame.name # "" THEN frame.name
                    ELSE "(anonymous)",
   resource |-> IF Has(frame, "resourceId") THEN frame.resourceId ELSE -1,
   line |-> IF Has(frame, "line") THEN frame.line ELSE 0,
   column |-> IF Has(frame, "column") THEN frame.column ELSE 0]

BuiltFromTrace ==
  /\ Returned("generateFromTrace")
  /\ call.trace # Null
  /\ Has(call.trace, "samples")
  /\ Has(call.trace, "stacks")

\* C1: within one returned Profile, two input items (the samples of a trace that
\* name a frame; the records) get the same node id exactly when they share the
\* identity key (context, function name, file, line, column), and every such id is
\* the id of one node of the Profile.
FrameIdentity ==
  /\ BuiltFromTrace =>
       LET kept == KeptSamples(call.trace)
           key(i) == IdentityKey(SampleFrame(call.trace, kept[i]), call.threadName)
       IN /\ Len(ret.samples) = Len(kept)
          /\ DistinctNodeIds(ret)
          /\ \A i, j \in DOMAIN kept :
               /\ ret.samples[i] \in NodeIds(ret)
               /\ (key(i) = key(j)) <=> (ret.samples[i] = ret.samples[j])
  /\ Returned("generateFromSingleWorkerData") =>
       /\ Len(ret.samples) = Len(call.workerData)
       /\ DistinctNodeIds(ret)
       /\ \A i, j \in DOMAIN call.workerData :
            /\ ret.samples[i] \in NodeIds(ret)
            /\ (call.workerData[i].functionName = call.workerData[j].functionName)
                 <=> (ret.samples[i] = ret.samples[j])

\* Two samples of frames written differently that share the key, and two samples of
\* frames with different keys, in one trace.
FrameIdentityWitness ==
  /\ BuiltFromTrace
  /\ LET kept == KeptSamples(call.trace)
         key(i) == IdentityKey(SampleFrame(call.trace, kept[i]), call.threadName)
     IN /\ Len(kept) = 2
        /\ SampleFrame(call.trace, kept[1]) # SampleFrame(call.trace, kept[2])
        /\ key(1) = key(2)
        /\ ret.samples[1] = ret.samples[2]

\* C2: the timeDeltas of every Profile returned by generateFromTrace or by
\* generateFromSingleWorkerData are non-decreasing.
TimeDeltasNonDecreasing ==
  (Returned("generateFromTrace") \/ Returned("generateFromSingleWorkerData"))
    => NonDecreasing(ret.timeDeltas)

(* mergeProfiles takes the profiles in ascending startTime, equal startTimes in the
   order of the list: MergeRank is the place of the k-th profile of the list. *)
MergeRank(profiles, k) ==
  1 + Cardinality({j \in DOMAIN profiles :
                     \/ profiles[j].startTime < profiles[k].startTime
                     \/ profiles[j].startTime = profiles[k].startTime /\ j < k})

Earlier(profiles, k) == {j \in DOMAIN profiles : MergeRank(profiles, j) < MergeRank(profiles, k)}

RECURSIVE SumOver(_, _, _)
SumOver(S, profiles, field) ==
  IF S = {} THEN 0
  ELSE LET j == CHOOSE x \in S : TRUE
       IN Len(profiles[j][field]) + SumOver(S \ {j}, profiles, field)

\* Where the samples and the nodes of the k-th profile start in the merged profile.
SampleBase(profiles, k) == SumOver(Earlier(profiles, k), profiles, "samples")

NodeBase(profiles, k) == SumOver(Earlier(profiles, k), profiles, "nodes")

Merged == Returned("mergeProfiles")

\* C3: the merged samples are as many as the samples of all inputs, and the samples
\* of each input appear among them, as remapped ids, in their original order.
MergeKeepsSamples ==
  Merged =>
    /\ Len(ret.samples) = SumOver(DOMAIN call.profiles, call.profiles, "samples")
    /\ \A k \in DOMAIN call.profiles :
         \A i \in DOMAIN call.profiles[k].samples :
           ret.samples[SampleBase(call.profiles, k) + i]
             = call.profiles[k].samples[i] + NodeBase(call.profiles, k)

\* A later profile of the list that starts earlier, both with samples.
MergeKeepsSamplesWitness ==
  /\ Merged
  /\ \E k, l \in DOMAIN call.profiles :
       /\ k < l
       /\ call.profiles[l].startTime < call.profiles[k].startTime
       /\ Len(call.profiles[k].samples) > 1
       /\ Len(call.profiles[l].samples) > 1

\* C4: the merged timeDeltas are strictly increasing and as many as the samples.
MergedTimeStrictlyIncreasing ==
  Merged => /\ StrictlyIncreasing(ret.timeDeltas)
            /\ Len(ret.timeDeltas) = Len(ret.samples)

\* Inputs with the same startTime, one of them with decreasing timeDeltas.
MergedTimeWitness ==
  /\ Merged
  /\ \E k, l \in DOMAIN call.profiles :
       /\ k # l
       /\ call.profiles[k].startTime = call.profiles[l].startTime
       /\ ~NonDecreasing(call.profiles[k].timeDeltas)
       /\ Len(call.profiles[l].samples) > 0

HasDenseNodeIds(profile) ==
  \A k \in DOMAIN profile.nodes : profile.nodes[k].id = k - 1

\* C5: when every input has the node ids 0..n-1, the merged node ids are pairwise
\* distinct and the merged nodes are as many as the nodes of all inputs.
MergedNodesDistinct ==
  (Merged /\ \A k \in DOMAIN call.profiles : HasDenseNodeIds(call.profiles[k]))
    => /\ DistinctNodeIds(ret)
       /\ Len(ret.nodes) = SumOver(DOMAIN call.profiles, call.profiles, "nodes")

\* The same profile twice: its nodes carry the same function names and locations.
MergedNodesWitness ==
  /\ Merged
  /\ \A k \in DOMAIN call.profiles : HasDenseNodeIds(call.profiles[k])
  /\ \E k, l \in DOMAIN call.profiles :
       /\ k # l
       /\ call.profiles[k] = call.profiles[l]
       /\ Len(call.profiles[k].nodes) > 1

\* C6: every merged sample is the id of exactly one merged node, and that node has
\* the callFrame of the node the sample named in its source profile.
MergedSamplesReferNodes ==
  Merged =>
    /\ \A i \in DOMAIN ret.samples :
         Cardinality({n \in DOMAIN ret.nodes : ret.nodes[n].id = ret.samples[i]}) = 1
    /\ \A k \in DOMAIN call.profiles :
         \A i \in DOMAIN call.profiles[k].samples :
           NodeWithId(ret, ret.samples[SampleBase(call.profiles, k) + i]).callFrame
             = NodeWithId(call.profiles[k], call.profiles[k].samples[i]).callFrame

\* A sample of a profile that is not merged first, naming a node whose callFrame
\* the node of that id in the first profile does not have.
MergedSamplesWitness ==
  /\ Merged
  /\ \E k, l \in DOMAIN call.profiles :
       /\ MergeRank(call.profiles, k) < MergeRank(call.profiles, l)
       /\ \E i \in DOMAIN call.profiles[l].samples :
            LET id == call.profiles[l].samples[i]
            IN /\ id \in NodeIds(call.profiles[k])
               /\ NodeWithId(call.profiles[k], id).callFrame
                    # NodeWithId(call.profiles[l], id).callFrame

\* C7: mergeProfiles raises for the empty list and for no other list; for a
\* non-empty list it returns a profile.
MergeRaisesOnlyOnEmpty ==
  (pc = "done" /\ call.op = "mergeProfiles") =>
    /\ IsError(ret) <=> Len(call.profiles) = 0
    /\ ~IsError(ret) => DOMAIN ret = {"nodes", "samples", "timeDeltas", "startTime", "endTime"}

MergeRaisesWitness ==
  pc = "done" /\ call.op = "mergeProfiles" /\ call.profiles = <<>> /\ IsError(ret)

Exported == Returned("generateSpeedscopeFormat")

FrameIndexes == 0..(Len(ret.shared.frames) - 1)

EventedTracks == SelectSeq(ret.profiles, LAMBDA track : track.type = "evented")

\* C8: every sample of a sampled track and every event's frame of an evented track
\* is an index of shared.frames.
TracksReferFrames ==
  Exported =>
    \A p \in DOMAIN ret.profiles :
      LET track == ret.profiles[p]
      IN /\ track.type = "sampled" =>
              \A i \in DOMAIN track.samples : track.samples[i] \in FrameIndexes
         /\ track.type = "evented" =>
              \A i \in DOMAIN track.events : track.events[i].frame \in FrameIndexes

\* A sampled track with samples beside an evented track built from raw records,
\* for which frames were added while the events were made.
TracksReferFramesWitness ==
  /\ Exported
  /\ call.workerGroups # Undefined
  /\ \E p, q \in DOMAIN ret.profiles :
       /\ ret.profiles[p].type = "sampled"
       /\ Len(ret.profiles[p].samples) > 1
       /\ ret.profiles[q].type = "evented"
       /\ \E i \in DOMAIN ret.profiles[q].events :
            ret.profiles[q].events[i].frame + 1 = Len(ret.shared.frames)

\* C9: the events of every evented track are in non-decreasing order of at, on the
\* raw-record path and on the degraded path.
EventsAscending ==
  Exported =>
    \A p \in DOMAIN ret.profiles :
      ret.profiles[p].type = "evented" =>
        \A i \in 1..(Len(ret.profiles[p].events) - 1) :
          ret.profiles[p].events[i].at <= ret.profiles[p].events[i + 1].at

\* Raw records of one worker that overlap: the second opens before the first closes.
EventsAscendingWitness ==
  /\ Exported
  /\ call.workerGroups # Undefined
  /\ \E g \in DOMAIN call.workerGroups.entries :
       LET data == call.workerGroups.entries[g].data
       IN \E i, j \in DOMAIN data :
            /\ i < j
            /\ data[i].startTime < data[j].startTime
            /\ data[j].startTime < data[i].endTime
            /\ data[j].startTime <= data[j].endTime
  /\ \E p \in DOMAIN ret.profiles :
       ret.profiles[p].type = "evented" /\ Len(ret.profiles[p].events) = 4

\* The origin of the worker events: the earliest of baseStartTime and the record starts.
EventOrigin ==
  LET groups == call.workerGroups.entries
  IN minOf({call.baseStartTime}
           \cup UNION {{groups[g].data[j].startTime : j \in DOMAIN groups[g].data} :
                       g \in DOMAIN groups})

NotInverted(data) == {j \in DOMAIN data : data[j].endTime >= data[j].startTime}

CountEvents(events, type, at) ==
  Cardinality({i \in DOMAIN events : events[i].type = type /\ events[i].at = at})

\* The opens and closes of a track can be paired, each open with a close of the
\* same frame that is not earlier: per frame, as many closes as opens, and before
\* any instant no more closes than opens.
Paired(events) ==
  \A f \in {events[i].frame : i \in DOMAIN events} :
    LET opens(S) == Cardinality({i \in S : events[i].frame = f /\ events[i].type = "O"})
        closes(S) == Cardinality({i \in S : events[i].frame = f /\ events[i].type = "C"})
    IN /\ opens(DOMAIN events) = closes(DOMAIN events)
       /\ \A t \in {events[i].at : i \in DOMAIN events} :
            closes({i \in DOMAIN events : events[i].at < t})
              <= opens({i \in DOMAIN events : events[i].at < t})

\* The workers whose raw records are not all inverted, in the order of workerProfiles.
WorkersWithEvents ==
  SelectSeq(call.workerProfiles,
            LAMBDA entry : NotInverted(EntryOf(call.workerGroups.entries,
                                               entry.workerId).data) # {})

\* C10: a record with endTime < startTime contributes no event; the events of a
\* track built from raw records are exactly an open and a close per record that is
\* not inverted, at its start and its end; and in every evented track every open
\* is paired with a close at 0 <= open.at <= close.at.
NoNegativeDuration ==
  Exported =>
    /\ \A p \in DOMAIN EventedTracks :
         /\ \A i \in DOMAIN EventedTracks[p].events : EventedTracks[p].events[i].at >= 0
         /\ Paired(EventedTracks[p].events)
    /\ call.workerGroups # Undefined =>
         /\ Len(EventedTracks) = Len(WorkersWithEvents)
         /\ \A p \in DOMAIN EventedTracks :
              LET events == EventedTracks[p].events
                  data == EntryOf(call.workerGroups.entries,
                                  WorkersWithEvents[p].workerId).data
                  times == {events[i].at : i \in DOMAIN events}
                             \cup {(data[j].startTime - EventOrigin) * 1000 : j \in DOMAIN data}
                             \cup {(data[j].endTime - EventOrigin) * 1000 : j \in DOMAIN data}
              IN \A t \in times :
                   /\ CountEvents(events, "O", t)
                        = Cardinality({j \in NotInverted(data) :
                                         (data[j].startTime - EventOrigin) * 1000 = t})
                   /\ CountEvents(events, "C", t)
                        = Cardinality({j \in NotInverted(data) :
                                         (data[j].endTime - EventOrigin) * 1000 = t})

\* Raw records of one worker, one inverted and one not, exported to a track.
NoNegativeDurationWitness ==
  /\ Exported
  /\ call.workerGroups # Undefined
  /\ Len(EventedTracks) > 0
  /\ \E g \in DOMAIN call.workerGroups.entries :
       LET data == call.workerGroups.entries[g].data
       IN /\ NotInverted(data) # {}
          /\ NotInverted(data) # DOMAIN data
          /\ Len(EventedTracks[1].events) = 2 * Cardinality(NotInverted(data))

(***************************************************************************)
(* Properties of the PerformanceMonitor.                                   *)
(***************************************************************************)
SpeedscopeGenerated == call.op = "generateSpeedscopeProfile" /\ Has(ret, "shared")

Workers(workerData) == {workerData[i].workerId : i \in DOMAIN workerData}

WorkerFunctions(workerData) ==
  {<<workerData[i].workerId, workerData[i].functionName>> : i \in DOMAIN workerData}

\* An artifact exported from the raw records of workers alone, none of them inverted.
WorkersAloneExported ==
  /\ SpeedscopeGenerated
  /\ monitor.workerPerformanceData # <<>>
  /\ monitor.mainThreadInstrumentationData = <<>>
  /\ NotInverted(monitor.workerPerformanceData) = DOMAIN monitor.workerPerformanceData
  /\ \A p \in DOMAIN ret.profiles : ret.profiles[p].type = "evented"

\* C11: for workers exported from raw records, generateSpeedscopeProfile yields one
\* evented track per worker, and shared.frames has one entry per distinct pair of
\* worker and function name among the records.
OneFramePerWorkerFunction ==
  WorkersAloneExported =>
    /\ Len(ret.profiles) = Cardinality(Workers(monitor.workerPerformanceData))
    /\ Len(ret.shared.frames) = Cardinality(WorkerFunctions(monitor.workerPerformanceData))

\* The Profiler of this browser never runs, so that it never has a trace.
NeverSampled == env.profiling # "ok"

ProfileGeneratedWithoutTrace == call.op = "generateProfile" /\ NeverSampled

RecordNodeNames(workerData) ==
  {"[Worker-" \o workerData[i].workerId \o "] " \o workerData[i].functionName :
     i \in DOMAIN workerData}

\* C12: when the sampled trace is null and records have been added with
\* addWorkerPerformanceData, generateProfile() returns a profile built from the
\* records alone: one sample per record, each the id of a node, and the nodes are
\* those of the records' functions.
ProfileFromRecordsAlone ==
  (ProfileGeneratedWithoutTrace /\ monitor.workerPerformanceData # <<>>) =>
    /\ DOMAIN ret = {"nodes", "samples", "timeDeltas", "startTime", "endTime"}
    /\ Len(ret.samples) = Len(monitor.workerPerformanceData)
    /\ \A i \in DOMAIN ret.samples : ret.samples[i] \in NodeIds(ret)
    /\ {ret.nodes[k].callFrame.functionName : k \in DOMAIN ret.nodes}
         = RecordNodeNames(monitor.workerPerformanceData)

\* The records of two workers, where the Profiler failed to start.
ProfileFromRecordsAloneWitness ==
  /\ ProfileGeneratedWithoutTrace
  /\ env.profiling = "throws"
  /\ Cardinality(Workers(monitor.workerPerformanceData)) = 2
  /\ Len(ret.samples) = 2

NoRecords ==
  monitor.workerPerformanceData = <<>> /\ monitor.mainThreadInstrumentationData = <<>>

\* C13: without a sampled trace and without records of any kind, generateProfile()
\* and generateSpeedscopeProfile() return null and raise no error.
NothingToProfile ==
  (call.op \in {"generateProfile", "generateSpeedscopeProfile"} /\ NeverSampled /\ NoRecords)
    => ret = Null

\* generateSpeedscopeProfile() after stop(), where the document policy forbids
\* sampling and the monitor holds no record.
NothingToProfileWitness ==
  /\ call.op = "generateSpeedscopeProfile"
  /\ env.profiling = "disallowed"
  /\ NoRecords
  /\ ret = Null
  /\ pc = "stopped"

(***************************************************************************)
(* Properties of the artifacts at their edges.                             *)
(***************************************************************************)
ExportReturned == pc = "done" /\ call.op = "generateSpeedscopeFormat"

\* C14: generateSpeedscopeFormat without a main profile and without worker
\* profiles returns an artifact whose shared.frames and profiles are empty, and
\* raises nothing.
EmptyExport ==
  (ExportReturned /\ call.mainThreadProfile = Null /\ call.workerProfiles = <<>>) =>
    /\ ~IsError(ret)
    /\ ret # Null
    /\ ret.shared.frames = <<>>
    /\ ret.profiles = <<>>

EmptyExportWitness ==
  /\ ExportReturned
  /\ call.mainThreadProfile = Null
  /\ call.workerProfiles = <<>>
  /\ ret.name = "Performance Profile"
  /\ Len(ret.profiles) = 0

\* C15: every track of an artifact has endValue >= startValue, and a main profile
\* without samples is exported as a sampled track whose samples and weights are
\* empty.
TrackEndsAfterStart ==
  Exported =>
    /\ \A p \in DOMAIN ret.profiles : ret.profiles[p].endValue >= ret.profiles[p].startValue
    /\ (call.mainThreadProfile # Null /\ Len(call.mainThreadProfile.samples) = 0) =>
         /\ Len(ret.profiles) > 0
         /\ ret.profiles[1].type = "sampled"
         /\ ret.profiles[1].samples = <<>>
         /\ ret.profiles[1].weights = <<>>

\* A main profile without samples beside a worker whose track has events.
TrackEndsAfterStartWitness ==
  /\ Exported
  /\ call.mainThreadProfile # Null
  /\ Len(call.mainThreadProfile.samples) = 0
  /\ Len(ret.profiles) = 2
  /\ ret.profiles[1].samples = <<>>
  /\ ret.profiles[2].type = "evented"
  /\ ret.profiles[2].endValue > ret.profiles[2].startValue

(***************************************************************************)
(* Properties of the PerformanceMonitor's runs.                            *)
(***************************************************************************)
\* stop() has returned, and the Profiler had handed over a trace with samples of
\* frames when it was stopped.
StoppedWithSamples ==
  /\ pc = "stopped"
  /\ call.trace # Null
  /\ KeptSamples(call.trace) # <<>>

\* C16: when the Profiler was started by start() and captured samples, then after
\* stop() the artifact of generateProfile() or generateSpeedscopeProfile() contains
\* the main-thread samples of the trace retrieved when sampling was stopped.
TraceSamplesInArtifact ==
  StoppedWithSamples =>
    /\ call.op = "generateProfile" =>
         /\ Has(ret, "samples")
         /\ Len(ret.samples) >= Len(KeptSamples(call.trace))
    /\ call.op = "generateSpeedscopeProfile" =>
         /\ Has(ret, "profiles")
         /\ \E p \in DOMAIN ret.profiles :
              /\ ret.profiles[p].type = "sampled"
              /\ Len(ret.profiles[p].samples) >= Len(KeptSamples(call.trace))

GenerateOps == {"generateProfile", "generateSpeedscopeProfile"}

\* C17: after stop(), a call of a generate* method that follows a call of the same
\* method, with no add*, clear() or start() between them, returns an artifact
\* equal to the one the earlier call returned.
GenerateIsIdempotent ==
  [][(pc = "stopped" /\ call.op \in GenerateOps /\ call'.op = call.op) => ret' = ret]_vars

\* start() has just returned.
StartReturned == call.op = "start" /\ pc = "collecting"

GenerateLeavesBuffers ==
  [][call'.op \in GenerateOps =>
       /\ monitor'.workerPerformanceData = monitor.workerPerformanceData
       /\ monitor'.mainThreadInstrumentationData = monitor.mainThreadInstrumentationData]_vars

\* C34: when main-thread instrumentation records are the only data collected (no
\* sampled trace, no worker record), generateProfile() returns a profile, not null,
\* with one sample per such record.
ProfileFromMainThreadRecords ==
  (ProfileGeneratedWithoutTrace /\ monitor.workerPerformanceData = <<>>
     /\ monitor.mainThreadInstrumentationData # <<>>) =>
    /\ ret # Null
    /\ Has(ret, "samples")
    /\ Len(ret.samples) = Len(monitor.mainThreadInstrumentationData)

(***************************************************************************)
(* Properties of the retrieval of the workers' records.                    *)
(***************************************************************************)
\* C20: once the retrieval has started it completes: every wait that is over ended
\* on a PERF_DATA_RESPONSE or a PERF_DATA_ERROR (the handler is gone) or on the
\* timeout (the timer has fired), and, whether or not the workers answer, stop() is
\* called and returns.
RetrievalCompletes ==
  /\ [](\A w \in DOMAIN app.workers :
          app.workers[w].wait = "resolved" =>
            (~app.workers[w].listening \/ app.workers[w].timeout = "fired"))
  /\ (app.phase = "retrieving") ~> (app.phase = "stopped" /\ pc = "stopped")

\* The monitor is stopped although a worker never took the request, its wait ended
\* by the timer, while another worker answered in time.
RetrievalCompletesWitness ==
  /\ app.phase = "stopped"
  /\ ~monitor.memoryMonitor.isEnabled
  /\ \E v, w \in DOMAIN app.workers :
       /\ app.workers[v].request = "sent"
       /\ app.workers[v].timeout = "fired"
       /\ app.workers[w].timeout = "cleared"
       /\ ~app.workers[w].listening

RecordsOfWorker(w) ==
  SelectSeq(monitor.workerPerformanceData, LAMBDA data : data.workerId = workerIdOf(w))

\* C21: a worker whose wait ended by the timeout contributes nothing: the monitor's
\* worker buffer holds no record of it, also when its PERF_DATA_RESPONSE arrives
\* after the timeout.
TimedOutWorkerAddsNothing ==
  \A w \in DOMAIN app.workers :
    app.workers[w].timeout = "fired" => RecordsOfWorker(w) = <<>>

\* C33: each record a worker returns in a PERF_DATA_RESPONSE is added to the
\* monitor's worker buffer once only: a worker answers once, with at most one
\* record, so the buffer never holds two records of one worker.
EachRecordAddedOnce ==
  \A w \in DOMAIN app.workers : Len(RecordsOfWorker(w)) <= 1

(***************************************************************************)
(* Properties of the MainThreadProfiler.                                   *)
(***************************************************************************)
\* C22: start() raises nothing and returns a boolean: false where the profiling
\* API is unsupported, disallowed or fails to start, true exactly when the
\* profiler is then running.  stop() raises nothing, leaves the profiler not
\* running, and returns a trace only when the profiler was running, null when it
\* was not (as after an earlier stop()).
ProfilerNeverRaises ==
  /\ call.op = "start" =>
       /\ DOMAIN ret = {"returned"}
       /\ ret.returned \in BOOLEAN
       /\ ret.returned <=> monitor.profiler.isRunning
       /\ env.profiling # "ok" => ~ret.returned
       /\ env.profiling = "ok" => ret.returned
  /\ call.op = "stop" =>
       /\ ~IsError(ret)
       /\ ~monitor.profiler.isRunning
       /\ ret # Null => (call.was.isRunning /\ DOMAIN ret = {"frames", "stacks", "samples"})
       /\ ~call.was.isRunning => ret = Null

\* A second stop() after the stop() that returned a trace with samples.
ProfilerNeverRaisesWitness ==
  /\ pc = "profiling"
  /\ call.op = "stop"
  /\ ~call.was.isRunning
  /\ ret = Null
  /\ call.trace # Null
  /\ Len(call.trace.samples) > 0

(***************************************************************************)
(* Properties of the records kept by a profiler.                           *)
(***************************************************************************)
GotAll == pc = "telemetry" /\ call.op = "getAllPerformanceData"

\* Repeated calls return the same: call.last and call.prev are what the last two
\* calls returned with no record made and no clear() since the earlier one began.
SameOnRepeat == GotAll /\ call.prev # Undefined => call.last = call.prev

\* A call begun after clear() returned, and no record made since, returns nothing.
EmptyAfterClear == GotAll /\ call.afterClear => ret.records = <<>>

\* C23: repeated getAllPerformanceData() calls on a WorkerProfiler or a
\* MainThreadInstrumentation with no new record and no clear() between them return
\* the same sequence of records, also while saves to IndexedDB are pending, and
\* after clear() the call returns an empty sequence until a new record is made.
TelemetryRepeatable == SameOnRepeat /\ EmptyAfterClear

(***************************************************************************)
(* Properties of the marker registry.                                      *)
(***************************************************************************)
\* The marker a markFunction(name, options) registers: the name, the category or
\* "custom", the color or the category's default, the description if given.
MarkerAsked(name, options) ==
  LET category == IF options.category = "" THEN "custom" ELSE options.category
      color == IF Has(options, "color") /\ options.color # "" THEN options.color
               ELSE CASE category = "network" -> "#ff6b6b"
                      [] category = "compute" -> "#ffe66d"
                      [] category = "custom" -> "#95e1d3"
      marker == [functionName |-> name, category |-> category, color |-> color]
  IN  IF Has(options, "description")
      THEN marker @@ [description |-> options.description] ELSE marker

Reversed(s) == [i \in 1..Len(s) |-> s[Len(s) + 1 - i]]

\* C25: the result of mergeProfiles does not depend on the order of its input list:
\* the list in the other order gives the same merged profile, each source node
\* with the same merged id.
MergeOrderIndependent ==
  Returned("mergeProfiles") => ret = mergeProfiles(Reversed(call.profiles))

NoUsableTrace ==
  call.trace = Null \/ ~Has(call.trace, "samples") \/ ~Has(call.trace, "stacks")

\* C26: generateFromTrace called with a null trace, or with a trace lacking samples
\* or lacking stacks, raises nothing and returns a profile whose nodes, samples and
\* timeDeltas are empty and whose startTime and endTime are the given ones.
EmptyProfileWithoutTrace ==
  pc = "done" /\ call.op = "generateFromTrace" /\ NoUsableTrace =>
    /\ ~IsError(ret)
    /\ ret.nodes = <<>>
    /\ ret.samples = <<>>
    /\ ret.timeDeltas = <<>>
    /\ ret.startTime = call.startTime
    /\ ret.endTime = call.endTime

\* The trace has frames and samples but no stacks.
EmptyProfileWithoutTraceWitness ==
  /\ Returned("generateFromTrace")
  /\ call.trace # Null
  /\ Has(call.trace, "samples")
  /\ Len(call.trace.samples) > 0
  /\ ~Has(call.trace, "stacks")
  /\ call.startTime # call.endTime
  /\ ret = getEmptyProfile(call.startTime, call.endTime)

(***************************************************************************)
(* Properties of the instrumented functions.                               *)
(***************************************************************************)
RecordsMade ==
  IF app.workerProfilerInstance = Null THEN <<>>
  ELSE app.workerProfilerInstance.performanceData

PassedThrough ==
  CASE call.op = "invoke" /\ call.outcome.kind = "returns" ->
         ret = [value |-> call.outcome.value]
    [] call.op = "invoke" /\ call.outcome.kind = "throws" ->
         ret = RaisedError(call.outcome.value)
    [] call.op = "invoke" /\ call.outcome.kind = "promise" ->
         ret = [promise |-> call.outcome.value]
    [] call.op = "settle" -> ret = call.outcome
    [] OTHER -> TRUE

\* C27 as stated: every invocation of a wrapped function that has returned, thrown
\* or whose promise has settled has made exactly one record, those whose promise is
\* pending none, and the result, exception or rejection is the wrapped function's.
OneRecordPerInvocation ==
  pc = "instrumented" =>
    /\ Len(RecordsMade) = call.finished
    /\ call.invoked = call.finished + Len(app.pending)
    /\ PassedThrough

\* C27: once setWorkerProfiler has been called, every invocation of a wrapped
\* function that has returned, thrown or whose promise has settled has made exactly
\* one record, those whose promise is pending none, and the result, exception or
\* rejection is the wrapped function's.  Before setWorkerProfiler an invocation
\* throws "WorkerProfiler not initialized" and makes no record.
OneRecordPerInvocationOnceSet ==
  pc = "instrumented" =>
    /\ call.op \in {"invoke", "settle"} /\ call.initialized => PassedThrough
    /\ call.op = "invoke" /\ ~call.initialized => ret = NotInitialized
    /\ Len(RecordsMade) = call.finished - call.refused
    /\ call.invoked = call.finished + Len(app.pending)

\* A promise settled as rejected after a later synchronous call had finished.
OneRecordPerInvocationOnceSetWitness ==
  /\ pc = "instrumented"
  /\ call.op = "settle"
  /\ call.outcome.kind = "rejected"
  /\ ret = [kind |-> "rejected", value |-> "b"]
  /\ Len(RecordsMade) = 2
  /\ RecordsMade[1].functionName = "ImageProcessor.g"
  /\ RecordsMade[2].functionName = "f"
  /\ RecordsMade[2].startTime < RecordsMade[1].startTime
  /\ RecordsMade[2].endTime > RecordsMade[2].startTime

(***************************************************************************)
(* Properties of the exporter, continued.                                  *)
(***************************************************************************)
\* The records that neither end before they start nor start before the run start.
InRun(data) ==
  {j \in DOMAIN data : data[j].endTime >= data[j].startTime
                         /\ data[j].startTime >= call.baseStartTime}

\* C28: with the run start time baseStartTime handed to the exporter, each worker
\* record with endTime >= startTime >= baseStartTime yields exactly one open event
\* at (startTime - baseStartTime) * 1000 and one close event at
\* (endTime - baseStartTime) * 1000, and a record that started before the run start
\* yields no events.
EventsFromRunStart ==
  Exported /\ call.workerGroups # Undefined /\ Len(EventedTracks) = Len(WorkersWithEvents) =>
    \A p \in DOMAIN EventedTracks :
      LET events == EventedTracks[p].events
          data == EntryOf(call.workerGroups.entries, WorkersWithEvents[p].workerId).data
          times == {events[i].at : i \in DOMAIN events}
                     \cup {(data[j].startTime - call.baseStartTime) * 1000 : j \in DOMAIN data}
                     \cup {(data[j].endTime - call.baseStartTime) * 1000 : j \in DOMAIN data}
      IN \A t \in times :
           /\ CountEvents(events, "O", t)
                = Cardinality({j \in InRun(data) :
                                 (data[j].startTime - call.baseStartTime) * 1000 = t})
           /\ CountEvents(events, "C", t)
                = Cardinality({j \in InRun(data) :
                                 (data[j].endTime - call.baseStartTime) * 1000 = t})

SampledTracks == SelectSeq(ret.profiles, LAMBDA track : track.type = "sampled")

MainSampled ==
  /\ Exported
  /\ call.mainThreadProfile # Null
  /\ Len(call.mainThreadProfile.samples) > 0
  /\ \A i \in DOMAIN call.mainThreadProfile.samples :
       call.mainThreadProfile.samples[i] \in NodeIds(call.mainThreadProfile)

\* C29: for a main profile with at least one sample whose samples all reference its
\* nodes, the exported sampled track has startValue 0, one sample and one weight per
\* profile sample, weights[i] = max(timeDeltas[i] - timeDeltas[i-1], 1) with 0 before
\* the first, and endValue = max(the maximum of timeDeltas, 1).
SampledTrackOfMain ==
  MainSampled =>
    LET profile == call.mainThreadProfile IN
    /\ Len(SampledTracks) = 1
    /\ SampledTracks[1].startValue = 0
    /\ Len(SampledTracks[1].samples) = Len(profile.samples)
    /\ Len(SampledTracks[1].weights) = Len(profile.samples)
    /\ \A i \in DOMAIN profile.samples :
         SampledTracks[1].weights[i]
           = Max2(timeDeltaAt(profile, i) - (IF i = 1 THEN 0 ELSE timeDeltaAt(profile, i - 1)), 1)
    /\ SampledTracks[1].endValue
         = Max2(maxOf({profile.timeDeltas[i] : i \in DOMAIN profile.timeDeltas}), 1)

\* All of C29 but the endValue.
SampledTrackWeights ==
  MainSampled =>
    LET profile == call.mainThreadProfile IN
    /\ Len(SampledTracks) = 1
    /\ SampledTracks[1].startValue = 0
    /\ Len(SampledTracks[1].samples) = Len(profile.samples)
    /\ Len(SampledTracks[1].weights) = Len(profile.samples)
    /\ \A i \in DOMAIN profile.samples :
         SampledTracks[1].weights[i]
           = Max2(timeDeltaAt(profile, i) - (IF i = 1 THEN 0 ELSE timeDeltaAt(profile, i - 1)), 1)

(***************************************************************************)
(* Properties of the profile of one worker's records.                      *)
(***************************************************************************)
Occurrences(s, x) == Cardinality({i \in DOMAIN s : s[i] = x})

\* C30: generateFromSingleWorkerData(records, S, E, id) returns exactly one sample
\* per record, in ascending order of the records' startTime, and discards none; the
\* i-th timeDelta is (startTime_i - S) * 1000 when that is not less than the
\* timeDelta before it (0 before the first), and that timeDelta + 1 otherwise.
OneSamplePerRecordInOrder ==
  Returned("generateFromSingleWorkerData") =>
    LET sorted == call.workerData
        emitted(i) == (sorted[i].startTime - call.startTime) * 1000
    IN /\ Len(sorted) = Len(call.given)
       /\ \A i \in DOMAIN call.given :
            Occurrences(sorted, call.given[i]) = Occurrences(call.given, call.given[i])
       /\ \A i, j \in DOMAIN sorted : i < j => sorted[i].startTime <= sorted[j].startTime
       /\ Len(ret.samples) = Len(sorted)
       /\ Len(ret.timeDeltas) = Len(sorted)
       /\ \A i \in DOMAIN sorted :
            /\ ret.samples[i] \in NodeIds(ret)
            /\ NodeWithId(ret, ret.samples[i]).callFrame.functionName
                 = "[Worker-" \o call.workerId \o "] " \o sorted[i].functionName
            /\ ret.timeDeltas[i]
                 = LET previous == IF i = 1 THEN 0 ELSE ret.timeDeltas[i - 1]
                   IN IF emitted(i) >= previous THEN emitted(i) ELSE previous + 1

\* Records that start 0, 10 and 15 ms after S, given out of order, with three names.
OneSamplePerRecordInOrderWitness ==
  /\ Returned("generateFromSingleWorkerData")
  /\ call.given = ThreeInARow.workerData
  /\ call.workerData # call.given
  /\ Len(ret.nodes) = 3
  /\ ret.samples = <<0, 1, 2>>
  /\ ret.timeDeltas = <<0, 10000, 15000>>

\* Two records that start before S.
OneSamplePerRecordClamped ==
  /\ Returned("generateFromSingleWorkerData")
  /\ Len(call.given) = 2
  /\ call.startTime = 1
  /\ \A i \in DOMAIN call.given : call.given[i].startTime = 0
  /\ ret.timeDeltas = <<1, 2>>

(***************************************************************************)
(* Properties of the evented tracks, continued.                            *)
(***************************************************************************)
\* The frames left open after the events from the i-th on, with open the frames
\* opened and not yet closed before it; [bad |-> TRUE] if a close does not close
\* the frame opened last.
RECURSIVE OpenAfter(_, _, _)
OpenAfter(events, i, open) ==
  IF i > Len(events) THEN [open |-> open]
  ELSE IF events[i].type = "O" THEN OpenAfter(events, i + 1, Append(open, events[i].frame))
  ELSE IF open # <<>> /\ open[Len(open)] = events[i].frame
       THEN OpenAfter(events, i + 1, SubSeq(open, 1, Len(open) - 1))
       ELSE [bad |-> TRUE]

WellNested(events) == OpenAfter(events, 1, <<>>) = [open |-> <<>>]

\* C31: in every evented track of the export the events are well nested: every open
\* is closed later in the list and every close closes the frame opened last among
\* those still open.
EventsWellNested ==
  Exported => \A p \in DOMAIN EventedTracks : WellNested(EventedTracks[p].events)

(***************************************************************************)
(* Properties of the injected controls.                                    *)
(***************************************************************************)
MonitoringStopped ==
  /\ ~monitor.profiler.isRunning
  /\ ~monitor.memoryMonitor.isEnabled
  /\ ~monitor.networkMonitor.isEnabled
  /\ ~monitor.gcMonitor.isEnabled
  /\ ~monitor.gpuMonitor.isEnabled

\* C32: whenever the controls are not recording and no start-record or stop-record
\* handler is still executing, the monitor's profiler and monitors are stopped.
NotRecordingMeansStopped ==
  pc = "controls" /\ ~app.isRecording /\ app.starting = "no" /\ app.stopping = "no"
    => MonitoringStopped

(***************************************************************************)
(* Properties of the generator's handling of incomplete traces.            *)
(***************************************************************************)
NamesKnownFrame(trace, sample) ==
  /\ NamesFrame(trace, sample)
  /\ Has(trace, "frames")
  /\ (trace.stacks[sample.stackId + 1].frameId + 1) \in DOMAIN trace.frames

\* C35: generateFromTrace raises nothing for a non-null trace that has samples and
\* stacks: a sample whose stackId has no stack entry, or whose stack names a frame
\* index that is not in frames, is skipped, and the other samples are processed.
IncompleteSamplesSkipped ==
  (pc = "done" /\ call.op = "generateFromTrace" /\ call.trace # Null
     /\ Has(call.trace, "samples") /\ Has(call.trace, "stacks")) =>
    /\ ~IsError(ret)
    /\ Len(ret.samples)
         = Len(SelectSeq(call.trace.samples,
                         LAMBDA sample : NamesKnownFrame(call.trace, sample)))

(***************************************************************************)
(* Properties of the profilers' call stack.                                *)
(***************************************************************************)
\* C36: the callStack of the profiler holds exactly the names of the functions that
\* were started and whose end callback has not been called yet, in the order of
\* their start, in whatever order the end callbacks are called.
CallStackIsOpenCalls ==
  IF pc # "instrumented" \/ app.workerProfilerInstance = Null THEN TRUE
  ELSE app.workerProfilerInstance.callStack
         = [i \in DOMAIN app.pending |-> app.pending[i].functionName]

(***************************************************************************)
(* Properties of the names given to the workers' tracks.                   *)
(***************************************************************************)
\* C37: distinct worker identifiers give distinct names: the evented tracks of one
\* export have names that differ from each other, and the threadId the individual
\* profiles give a worker differs for any two different worker identifiers.
DistinctWorkersDistinctNames ==
  /\ Exported => \A p, q \in DOMAIN EventedTracks :
                   p # q => EventedTracks[p].name # EventedTracks[q].name
  /\ \A a, b \in WorkerIds : a # b => workerThreadName(a) # workerThreadName(b)

(***************************************************************************)
(* Properties of a generator used for several calls.                       *)
(***************************************************************************)
\* C38: a Profile returned by generateFromTrace, generateFromSingleWorkerData or
\* mergeProfiles is not changed by a later build, merge or export call on the same
\* generator: its nodes with their hit counts, its samples and its timeDeltas read
\* as they were returned.
ReturnedProfileKept ==
  (pc = "reuse" /\ app.held # Null) => app.held.now = app.held.profile

\* A Profile built from records was returned holding the generator's arrays, and a
\* later build on the same generator has returned a different Profile.
ReturnedProfileKeptWitness ==
  /\ pc = "reuse"
  /\ app.held # Null
  /\ call.op = "generateFromSingleWorkerData"
  /\ call.calls = MaxCalls
  /\ IF app.held = Null THEN FALSE
     ELSE /\ app.held.arrays \notin {0, app.arrays}
          /\ Len(app.held.profile.samples) = 2
          /\ app.held.profile.nodes[1].hitCount = 2
          /\ Len(ret.samples) = 1

(***************************************************************************)
(* Properties of the hit counts and of the merged interval.                *)
(***************************************************************************)
RECURSIVE SumHitCounts(_)
SumHitCounts(nodes) ==
  IF nodes = <<>> THEN 0 ELSE Head(nodes).hitCount + SumHitCounts(Tail(nodes))

RecordsNamed(workerData, workerId, nodeName) ==
  {i \in DOMAIN workerData :
     "[Worker-" \o workerId \o "] " \o workerData[i].functionName = nodeName}

\* C39: in a Profile generateFromSingleWorkerData returns, each node's hitCount is
\* the number of input records with that node's function name, so the hit counts
\* add up to the number of records, which is the number of samples.
HitCountsCountRecords ==
  Returned("generateFromSingleWorkerData") =>
    /\ \A k \in DOMAIN ret.nodes :
         ret.nodes[k].hitCount
           = Cardinality(RecordsNamed(call.workerData, call.workerId,
                                      ret.nodes[k].callFrame.functionName))
    /\ SumHitCounts(ret.nodes) = Len(call.workerData)
    /\ Len(ret.samples) = Len(call.workerData)

\* Two records of one function: one node, hit twice.
HitCountsCountRecordsWitness ==
  /\ Returned("generateFromSingleWorkerData")
  /\ Len(call.workerData) = 2
  /\ Len(ret.nodes) = 1
  /\ ret.nodes[1].hitCount = 2

\* C40: the Profile mergeProfiles returns starts at the least startTime of its
\* inputs and ends at the greatest endTime of its inputs.
MergedInterval ==
  Returned("mergeProfiles") =>
    /\ \E i \in DOMAIN call.profiles : ret.startTime = call.profiles[i].startTime
    /\ \A i \in DOMAIN call.profiles : ret.startTime <= call.profiles[i].startTime
    /\ \E i \in DOMAIN call.profiles : ret.endTime = call.profiles[i].endTime
    /\ \A i \in DOMAIN call.profiles : ret.endTime >= call.profiles[i].endTime

\* Two inputs, the second starting before the first and the first ending after the
\* second.
MergedIntervalWitness ==
  /\ Returned("mergeProfiles")
  /\ Len(call.profiles) = 2
  /\ call.profiles[2].startTime < call.profiles[1].startTime
  /\ call.profiles[2].endTime < call.profiles[1].endTime
  /\ ret.startTime = call.profiles[2].startTime
  /\ ret.endTime = call.profiles[1].endTime

====
